---- MODULE Spec2Model ----
(***************************************************************************)
(* Room lifecycle and presence coordination of the chat backend.           *)
(*                                                                         *)
(*   src/server.py           REST handlers on the chat_rooms and           *)
(*                           room_messages collections, and the per-room   *)
(*                           expiry task schedule_room_deletion.           *)
(*   src/socketio_server.py  realtime handlers on the in-memory presence   *)
(*                           tables connected_users, user_sessions and     *)
(*                           online_users.                                 *)
(*                                                                         *)
(* A REST handler is a coroutine: it runs without interruption between two *)
(* awaits and may be interleaved with other coroutines at every await.     *)
(* Each handler is therefore one action per awaited store operation, with  *)
(* the local computation that follows the await folded into that action.   *)
(* Time is counted in seconds.                                             *)
(***************************************************************************)
EXTENDS Integers, Sequences, FiniteSets

\* ------------------------------------------------------------------ bounds

\* How many times the clock may advance in one behaviour.
MaxTicks == 3
\* How many messages one author may have stored in one room.
MaxMsgs == 2
\* Largest max_members a room is created with.
MaxCap == 2
\* How many ban entries one room's document may hold.
MaxBans == 2
\* How many ban periods may elapse while requests are interleaved.
MaxRaceTicks == 1
\* How many times the process may restart in one behaviour.
MaxRestarts == 1

\* ------------------------------------------------------- program constants

\* timedelta(minutes=5) of kick_user
BanMinutes == 5
\* timedelta(hours=12) of create_room
RoomTTLHours == 12

\* asyncio.sleep(10) of monitor_room_times: the scheduler's tick interval
MonitorInterval == 10

BanDuration == BanMinutes * 60
RoomTTL == RoomTTLHours * 3600

\* ------------------------------------------------------------ value spaces

Users == {"u1", "u2", "u3"}
RoomIds == {"r1", "r2"}
Slots == {"s1", "s2"}
Sids == {"c1", "c2", "c3"}
\* The connections of the presence specification.
PresenceSids == {"c1", "c2"}

\* Python's None for an Optional[int] / a missing datetime field.
NoMax == -1
NoTime == -1
\* Python's None for an Optional[str].
NoStr == "None"

\* The passwords a room is created with, and those a join request supplies.
RoomPasswords == {NoStr, "abc"}
JoinPasswords == {NoStr, "abc"}
\* The max_members values a room is created with (RoomCreate.max_members).
MaxMembersValues == {NoMax} \cup (0 .. MaxCap)

\* The clock's steps: one second, and the jumps that land one second before
\* a ban's end and before a room's expiry.
BanSteps == {1, BanDuration - 1}
TTLSteps == {1, RoomTTL - 1}
\* The clock's steps around a room's expiry when the expiry task is late.
LateSteps == {1, MonitorInterval}

VARIABLES
    chat_rooms,     \* db.chat_rooms: room id -> document, for the rooms stored
    room_messages,  \* db.room_messages: room id -> author -> number of messages
    req,            \* the REST requests in flight: slot -> coroutine state
    timers,         \* the schedule_room_deletion task of each room
    now,            \* datetime.now(timezone.utc), in seconds
    ticks,          \* how often the clock has advanced
    emitted,        \* the events the last step handed to sio.emit, in order
    used,           \* the room ids insert_one has handed out
    kicked_at,      \* history: room -> user -> time the last kick committed
    announced,      \* history: room -> the room_deleted and room_expired events emitted
    live,           \* the connections the transport holds open
    user_sessions,  \* user_sessions: connection -> session, for those that have one
    connected_users,\* connected_users: user_id -> connection, for the keys set
    online_users,   \* online_users
    subs,           \* connection -> the rooms whose channel it has entered
    last_rt,        \* history: the last realtime event handled
    boot            \* the process: startup_db_indexes' position, restarts so far

presence == <<live, user_sessions, connected_users, online_users, subs, last_rt>>

vars == <<chat_rooms, room_messages, req, timers, now, ticks, emitted, used,
          kicked_at, announced, live, user_sessions, connected_users,
          online_users, subs, last_rt, boot>>

\* ------------------------------------------------------------------ helpers

\* Python truthiness of an Optional[int] and of an Optional[str].
TruthyInt(n) == n # NoMax /\ n # 0
TruthyStr(s) == s # NoStr /\ s # ""

RECURSIVE SelectSeqNot(_, _)
\* $pull {"banned_users": {"user_id": u}}: every entry of u is removed.
SelectSeqNot(bans, u) ==
    IF bans = <<>> THEN <<>>
    ELSE IF Head(bans).user_id = u THEN SelectSeqNot(Tail(bans), u)
    ELSE <<Head(bans)>> \o SelectSeqNot(Tail(bans), u)

\* A document that stands for "no document" in a coroutine's local `room`.
NoDoc == [creator_id |-> NoStr, admin_id |-> NoStr, members |-> {},
          password |-> NoStr, max_members |-> NoMax, created_at |-> NoTime,
          expires_at |-> NoTime, banned_users |-> <<>>]

Exists(r) == r \in DOMAIN chat_rooms

\* db.chat_rooms.find_one({"_id": r})
find_one(r) == IF Exists(r) THEN chat_rooms[r] ELSE NoDoc

\* An update that inserts the document when none matches (upsert).
update_one_Upsert(r, doc) ==
    [x \in DOMAIN chat_rooms \cup {r} |-> IF x = r THEN doc ELSE chat_rooms[x]]

\* db.chat_rooms.update_one({"_id": r}, ...): no document, no change (no upsert).
update_one(r, doc) ==
    IF Exists(r) THEN [chat_rooms EXCEPT ![r] = doc] ELSE chat_rooms

\* db.chat_rooms.delete_one({"_id": r})
delete_one(r) == [x \in DOMAIN chat_rooms \ {r} |-> chat_rooms[x]]

\* A room delete that forgets the cascade to the room's messages.
delete_many_Nothing(r) == room_messages

\* db.room_messages.delete_many({"room_id": r})
delete_many(r) == [room_messages EXCEPT ![r] = [u \in Users |-> 0]]

\* A delete by author that forgets the author: the whole room is cleared.
delete_many_by_Room(r, u) == [room_messages EXCEPT ![r] = [x \in Users |-> 0]]

\* db.room_messages.delete_many({"room_id": r, "user_id": u})
delete_many_by(r, u) == [room_messages EXCEPT ![r][u] = 0]

MsgCount(r) ==
    LET RECURSIVE Sum(_)
        Sum(S) == IF S = {} THEN 0
                  ELSE LET u == CHOOSE x \in S : TRUE
                       IN room_messages[r][u] + Sum(S \ {u})
    IN Sum(Users)

\* The state of a coroutine that serves no request.
IdleReq == [op |-> "none", pc |-> "idle", room_id |-> "r1", user_id |-> NoStr,
            arg |-> NoStr, found |-> FALSE, room |-> NoDoc, now0 |-> 0,
            idx |-> 0, deleted_count |-> 0, ban_until |-> NoTime,
            result |-> "none", room_deleted |-> FALSE, keep |-> FALSE]

Free(s) == req[s].pc \in {"idle", "done"}

NewReq(op, r, u, a, keep) ==
    [IdleReq EXCEPT !.op = op, !.pc = "read", !.room_id = r, !.user_id = u,
                    !.arg = a, !.keep = keep]

\* The coroutine raises HTTPException or returns. For a request that is kept
\* on record, what it was asked, what it fetched and what it answers stay
\* until the slot's next request; otherwise the slot is idle again.
Finish(q, res) ==
    IF q.keep THEN [q EXCEPT !.pc = "done", !.idx = 0, !.result = res]
    ELSE IdleReq

\* The coroutine goes on to its next await. A local the rest of the handler
\* does not read is dropped, unless the request is kept on record.
Proceed(q, pc) ==
    IF q.keep \/ pc = "pull_ban" THEN [q EXCEPT !.pc = pc]
    ELSE [q EXCEPT !.pc = pc, !.room = NoDoc, !.now0 = 0, !.idx = 0]

\* The HTTP status of a request's outcome.
Status(res) ==
    CASE res = "ok" -> 200
      [] res = "not_found" -> 404
      [] res \in {"banned", "invalid_password", "room_full", "not_admin"} -> 403
      [] res \in {"not_in_room", "self_kick", "not_member"} -> 400
      [] res = "expired" -> 410
      [] res = "server_error" -> 500
      [] OTHER -> 0

\* A broadcast that reaches every connection, whatever it has entered.
Channel_Everyone(r) == live

\* A channel that drops the connections of users who are not members of r.
Channel_Members(r) ==
    {c \in live : r \in subs[c] /\ c \in DOMAIN user_sessions
                  /\ user_sessions[c].user_id \in find_one(r).members}

\* The connections that have entered room r's channel.
Channel(r) == {c \in live : r \in subs[c]}

\* An emit: to == "all" for every connection, "room" for room r's channel.
Ev(name, r, to) ==
    [name |-> name, room_id |-> r, to |-> to, user_id |-> NoStr,
     rcpt |-> IF to = "all" THEN live ELSE Channel(r)]

Quiet == emitted' = <<>>

\* ------------------------------------------------------------------- clock

Tick(d) ==
    /\ ticks < MaxTicks
    /\ now' = now + d
    /\ ticks' = ticks + 1
    /\ Quiet
    /\ UNCHANGED <<presence, boot>>
    /\ UNCHANGED <<chat_rooms, room_messages, req, timers, used, kicked_at,
                   announced>>

\* -------------------------------------------------------------- create_room

\* A room that lives twice as long.
ExpiresAt_Double(t) == t + 2 * RoomTTL

\* line 463: expires_at = now + timedelta(hours=12)
ExpiresAt(t) == t + RoomTTL

\* create_room: insert_one hands out a fresh id; the expiry task is created
\* in the same run of the coroutine; then room_created is emitted to all.
create_room(r, creator, pw, mx) ==
    /\ r \notin used
    /\ used' = used \cup {r}
    /\ chat_rooms' = [x \in DOMAIN chat_rooms \cup {r} |->
           IF x = r
           THEN [creator_id |-> creator, admin_id |-> creator,
                 members |-> {creator}, password |-> pw, max_members |-> mx,
                 created_at |-> now, expires_at |-> ExpiresAt(now),
                 banned_users |-> <<>>]
           ELSE chat_rooms[x]]
    /\ timers' = [timers EXCEPT ![r] = [pc |-> "sleep", expires_at |-> ExpiresAt(now)]]
    /\ emitted' = <<Ev("room_created", r, "all")>>
    /\ UNCHANGED <<presence, boot>>
    /\ UNCHANGED <<room_messages, req, now, ticks, kicked_at, announced>>

\* A room document stored before create_room wrote expires_at (the "old
\* rooms" of line 1044): it carries created_at and no expires_at, and this
\* process runs no expiry task for it.
legacy_room(r, creator) ==
    /\ r \notin used
    /\ used' = used \cup {r}
    /\ chat_rooms' = [x \in DOMAIN chat_rooms \cup {r} |->
           IF x = r
           THEN [creator_id |-> creator, admin_id |-> creator,
                 members |-> {creator}, password |-> NoStr,
                 max_members |-> NoMax, created_at |-> now,
                 expires_at |-> NoTime, banned_users |-> <<>>]
           ELSE chat_rooms[x]]
    /\ Quiet
    /\ UNCHANGED <<presence, boot>>
    /\ UNCHANGED <<room_messages, req, timers, now, ticks, kicked_at, announced>>

\* ---------------------------------------------------------------- join_room

\* join_room with the password asked of members too.
JoinChecks_PasswordFirst(q) ==
    IF TruthyStr(q.room.password) /\ q.room.password # q.arg
    THEN Finish(q, "invalid_password")
    ELSE IF q.user_id \in q.room.members
    THEN Proceed(q, "emit")
    ELSE IF TruthyInt(q.room.max_members)
            /\ Cardinality(q.room.members) >= q.room.max_members
    THEN Finish(q, "room_full")
    ELSE Proceed(q, "add")

\* join_room, lines 645-661: the checks on the fetched document that follow
\* the ban loop, up to the await of the $addToSet.
JoinChecks(q) ==
    IF q.user_id \in q.room.members
    THEN Proceed(q, "emit")
    ELSE IF TruthyStr(q.room.password) /\ q.room.password # q.arg
    THEN Finish(q, "invalid_password")
    ELSE IF TruthyInt(q.room.max_members)
            /\ Cardinality(q.room.members) >= q.room.max_members
    THEN Finish(q, "room_full")
    ELSE Proceed(q, "add")

\* The first ban entry of the request's user at index i or later, 0 if none.
NextBan(q, i) ==
    LET hits == {j \in i .. Len(q.room.banned_users) :
                    q.room.banned_users[j].user_id = q.user_id}
    IN IF hits = {} THEN 0 ELSE CHOOSE j \in hits : \A k \in hits : j <= k

\* A ban loop that takes every ban entry for expired.
BanActive_Never(banned_until, t) == FALSE

\* The ban comparison with the boundary instant still banned.
BanActive_Inclusive(banned_until, t) == banned_until >= t

\* line 628: whether a ban entry is still in force at the handler's `now`.
BanActive(banned_until, t) == banned_until > t

\* join_room, lines 618-643: the ban loop over the fetched document from
\* index i on, up to its next await (the $pull of an expired entry) or raise.
JoinBanLoop(q, i) ==
    LET j == NextBan(q, i)
    IN IF j = 0 THEN JoinChecks(q)
       ELSE IF BanActive(q.room.banned_users[j].banned_until, q.now0)
       THEN Finish(q, "banned")
       ELSE [Proceed(q, "pull_ban") EXCEPT !.idx = j]

\* A request arrives and its coroutine starts.
Request(s, op, r, u, a, keep) ==
    /\ Free(s)
    /\ req' = [req EXCEPT ![s] = NewReq(op, r, u, a, keep)]
    /\ Quiet
    /\ UNCHANGED <<presence, boot>>
    /\ UNCHANGED <<chat_rooms, room_messages, timers, now, ticks, used,
                   kicked_at, announced>>

\* line 610: find_one, then `now` is read and the ban loop starts.
api_join_find(s) ==
    LET q == req[s]
    IN /\ q.op = "join" /\ q.pc = "read"
       /\ req' = [req EXCEPT ![s] =
              IF ~Exists(q.room_id) THEN Finish(q, "not_found")
              ELSE JoinBanLoop([q EXCEPT !.found = TRUE,
                                         !.room = find_one(q.room_id),
                                         !.now0 = now], 1)]
       /\ Quiet
       /\ UNCHANGED <<presence, boot>>
       /\ UNCHANGED <<chat_rooms, room_messages, timers, now, ticks, used,
                      kicked_at, announced>>

\* lines 639-642: the $pull of the user's ban entries, then the loop goes on.
api_join_pull_ban(s) ==
    LET q == req[s]
        r == q.room_id
    IN /\ q.op = "join" /\ q.pc = "pull_ban"
       /\ chat_rooms' = update_one(r,
              [find_one(r) EXCEPT !.banned_users = SelectSeqNot(@, q.user_id)])
       /\ req' = [req EXCEPT ![s] = JoinBanLoop(q, q.idx + 1)]
       /\ Quiet
       /\ UNCHANGED <<presence, boot>>
       /\ UNCHANGED <<room_messages, timers, now, ticks, used, kicked_at,
                      announced>>

\* lines 658-661: $addToSet of the user to members.
api_join_add(s) ==
    LET q == req[s]
        r == q.room_id
    IN /\ q.op = "join" /\ q.pc = "add"
       /\ chat_rooms' = update_one(r,
              [find_one(r) EXCEPT !.members = @ \cup {q.user_id}])
       /\ req' = [req EXCEPT ![s].pc = "emit"]
       /\ Quiet
       /\ UNCHANGED <<presence, boot>>
       /\ UNCHANGED <<room_messages, timers, now, ticks, used, kicked_at,
                      announced>>

\* lines 668-675: room_list_updated to all, then {"success": True}.
api_join_emit(s) ==
    LET q == req[s]
    IN /\ q.op = "join" /\ q.pc = "emit"
       /\ emitted' = <<Ev("room_list_updated:member_joined", q.room_id, "all")>>
       /\ req' = [req EXCEPT ![s] = Finish(q, "ok")]
       /\ UNCHANGED <<presence, boot>>
       /\ UNCHANGED <<chat_rooms, room_messages, timers, now, ticks, used,
                      kicked_at, announced>>

\* --------------------------------------------------------------- leave_room

\* line 683: find_one; line 689: is_admin from the fetched document.
api_leave_find(s) ==
    LET q == req[s]
    IN /\ q.op = "leave" /\ q.pc = "read"
       /\ req' = [req EXCEPT ![s] =
              IF ~Exists(q.room_id) THEN Finish(q, "not_found")
              ELSE IF find_one(q.room_id).admin_id = q.user_id
              THEN [q EXCEPT !.found = TRUE, !.pc = "del_room"]
              ELSE [q EXCEPT !.found = TRUE, !.pc = "pull_member"]]
       /\ Quiet
       /\ UNCHANGED <<presence, boot>>
       /\ UNCHANGED <<chat_rooms, room_messages, timers, now, ticks, used,
                      kicked_at, announced>>

\* line 693: the admin leaves, delete_one of the room.
api_leave_delete_room(s) ==
    LET q == req[s]
    IN /\ q.op = "leave" /\ q.pc = "del_room"
       /\ chat_rooms' = delete_one(q.room_id)
       /\ req' = [req EXCEPT ![s].pc = "del_msgs"]
       /\ Quiet
       /\ UNCHANGED <<presence, boot>>
       /\ UNCHANGED <<room_messages, timers, now, ticks, used, kicked_at,
                      announced>>

\* line 694: delete_many of the room's messages.
api_leave_delete_msgs(s) ==
    LET q == req[s]
    IN /\ q.op = "leave" /\ q.pc = "del_msgs"
       /\ room_messages' = delete_many(q.room_id)
       /\ req' = [req EXCEPT ![s].pc = "emit_deleted",
                             ![s].deleted_count = MsgCount(q.room_id)]
       /\ Quiet
       /\ UNCHANGED <<presence, boot>>
       /\ UNCHANGED <<chat_rooms, timers, now, ticks, used, kicked_at,
                      announced>>

\* lines 698-709: room_deleted to the room's channel, room_list_updated to
\* all, then {"success": True, "room_deleted": True}.
api_leave_emit_deleted(s) ==
    LET q == req[s]
    IN /\ q.op = "leave" /\ q.pc = "emit_deleted"
       /\ emitted' = <<Ev("room_deleted", q.room_id, "room"),
                       Ev("room_list_updated:deleted", q.room_id, "all")>>
       /\ announced' = [announced EXCEPT ![q.room_id].deleted = @ + 1]
       /\ req' = [req EXCEPT ![s] = Finish([q EXCEPT !.room_deleted = TRUE], "ok")]
       /\ UNCHANGED <<presence, boot>>
       /\ UNCHANGED <<chat_rooms, room_messages, timers, now, ticks, used,
                      kicked_at>>

\* A $pull that takes every member but the admin out of the room.
LeavePull_Others(doc, u) == [doc EXCEPT !.members = @ \cap {doc.admin_id}]

\* line 714: {"$pull": {"members": user_id}}
LeavePull(doc, u) == [doc EXCEPT !.members = @ \ {u}]

\* lines 712-715: a plain member leaves, $pull from members.
api_leave_pull(s) ==
    LET q == req[s]
        r == q.room_id
    IN /\ q.op = "leave" /\ q.pc = "pull_member"
       /\ chat_rooms' = update_one(r, LeavePull(find_one(r), q.user_id))
       /\ req' = [req EXCEPT ![s].pc = "emit"]
       /\ Quiet
       /\ UNCHANGED <<presence, boot>>
       /\ UNCHANGED <<room_messages, timers, now, ticks, used, kicked_at,
                      announced>>

\* lines 718-725: room_list_updated to all, then room_deleted: False.
api_leave_emit(s) ==
    LET q == req[s]
    IN /\ q.op = "leave" /\ q.pc = "emit"
       /\ emitted' = <<Ev("room_list_updated:member_left", q.room_id, "all")>>
       /\ req' = [req EXCEPT ![s] = Finish(q, "ok")]
       /\ UNCHANGED <<presence, boot>>
       /\ UNCHANGED <<chat_rooms, room_messages, timers, now, ticks, used,
                      kicked_at, announced>>

\* -------------------------------------------------------------- delete_room

\* lines 733-738: find_one and the admin check.
api_delete_find(s) ==
    LET q == req[s]
    IN /\ q.op = "delete" /\ q.pc = "read"
       /\ req' = [req EXCEPT ![s] =
              IF ~Exists(q.room_id) THEN Finish(q, "not_found")
              ELSE IF find_one(q.room_id).admin_id # q.user_id
              THEN Finish([q EXCEPT !.found = TRUE], "not_admin")
              ELSE [q EXCEPT !.found = TRUE, !.pc = "del_room"]]
       /\ Quiet
       /\ UNCHANGED <<presence, boot>>
       /\ UNCHANGED <<chat_rooms, room_messages, timers, now, ticks, used,
                      kicked_at, announced>>

\* line 741
api_delete_delete_room(s) ==
    LET q == req[s]
    IN /\ q.op = "delete" /\ q.pc = "del_room"
       /\ chat_rooms' = delete_one(q.room_id)
       /\ req' = [req EXCEPT ![s].pc = "del_msgs"]
       /\ Quiet
       /\ UNCHANGED <<presence, boot>>
       /\ UNCHANGED <<room_messages, timers, now, ticks, used, kicked_at,
                      announced>>

\* line 742
api_delete_delete_msgs(s) ==
    LET q == req[s]
    IN /\ q.op = "delete" /\ q.pc = "del_msgs"
       /\ room_messages' = delete_many(q.room_id)
       /\ req' = [req EXCEPT ![s].pc = "emit_deleted",
                             ![s].deleted_count = MsgCount(q.room_id)]
       /\ Quiet
       /\ UNCHANGED <<presence, boot>>
       /\ UNCHANGED <<chat_rooms, timers, now, ticks, used, kicked_at,
                      announced>>

\* lines 745-750: room_deleted to the room's channel.
api_delete_emit(s) ==
    LET q == req[s]
    IN /\ q.op = "delete" /\ q.pc = "emit_deleted"
       /\ emitted' = <<Ev("room_deleted", q.room_id, "room")>>
       /\ announced' = [announced EXCEPT ![q.room_id].deleted = @ + 1]
       /\ req' = [req EXCEPT ![s] = Finish([q EXCEPT !.room_deleted = TRUE], "ok")]
       /\ UNCHANGED <<presence, boot>>
       /\ UNCHANGED <<chat_rooms, room_messages, timers, now, ticks, used,
                      kicked_at>>

\* ---------------------------------------------------------------- kick_user

\* kick_user without the check of line 778.
KickChecks_NoSelf(q, doc) ==
    IF doc.admin_id # q.user_id THEN Finish(q, "not_admin")
    ELSE IF q.arg \notin doc.members THEN Finish(q, "not_in_room")
    ELSE [q EXCEPT !.pc = "del_msgs"]

\* lines 765-779: find_one and the checks, in the handler's order. The
\* request carries the requester as user_id and the target as arg.
KickChecks(q, doc) ==
    IF doc.admin_id # q.user_id THEN Finish(q, "not_admin")
    ELSE IF q.arg \notin doc.members THEN Finish(q, "not_in_room")
    ELSE IF q.arg = q.user_id THEN Finish(q, "self_kick")
    ELSE [q EXCEPT !.pc = "del_msgs"]

api_kick_find(s) ==
    LET q == req[s]
    IN /\ q.op = "kick" /\ q.pc = "read"
       /\ req' = [req EXCEPT ![s] =
              IF ~Exists(q.room_id) THEN Finish(q, "not_found")
              ELSE KickChecks([q EXCEPT !.found = TRUE], find_one(q.room_id))]
       /\ Quiet
       /\ UNCHANGED <<presence, boot>>
       /\ UNCHANGED <<chat_rooms, room_messages, timers, now, ticks, used,
                      kicked_at, announced>>

\* lines 782-785: delete_many of the target's messages in the room.
api_kick_delete_msgs(s) ==
    LET q == req[s]
    IN /\ q.op = "kick" /\ q.pc = "del_msgs"
       /\ room_messages' = delete_many_by(q.room_id, q.arg)
       /\ req' = [req EXCEPT ![s].pc = "ban",
                             ![s].deleted_count = room_messages[q.room_id][q.arg]]
       /\ Quiet
       /\ UNCHANGED <<presence, boot>>
       /\ UNCHANGED <<chat_rooms, timers, now, ticks, used, kicked_at,
                      announced>>

\* A ban that ends one second early.
BanUntil_Short(t) == t + BanDuration - 1

\* line 789: the end of the ban of a kick whose update runs at time t.
BanUntil(t) == t + BanDuration

\* The document after kick_user's update: $pull members, $push banned_users.
KickUpdate(doc, target, until) ==
    [doc EXCEPT !.members = @ \ {target},
                !.banned_users = Append(@, [user_id |-> target,
                                            banned_until |-> until])]

\* lines 789-801: ban_until is read from the clock, then one update_one
\* pulls the target from members and pushes the ban entry.
api_kick_ban(s) ==
    LET q == req[s]
        r == q.room_id
    IN /\ q.op = "kick" /\ q.pc = "ban"
       /\ Len(find_one(r).banned_users) < MaxBans
       /\ chat_rooms' = update_one(r, KickUpdate(find_one(r), q.arg, BanUntil(now)))
       /\ kicked_at' = IF Exists(r) THEN [kicked_at EXCEPT ![r][q.arg] = now]
                       ELSE kicked_at
       /\ req' = [req EXCEPT ![s].pc = "emit", ![s].ban_until = BanUntil(now)]
       /\ Quiet
       /\ UNCHANGED <<presence, boot>>
       /\ UNCHANGED <<room_messages, timers, now, ticks, used, announced>>

\* lines 805-826: user_kicked to the room's channel, room_list_updated to
\* all, messages_cleared to the room's channel, then the result.
api_kick_emit(s) ==
    LET q == req[s]
    IN /\ q.op = "kick" /\ q.pc = "emit"
       /\ emitted' = <<Ev("user_kicked", q.room_id, "room"),
                       Ev("room_list_updated:member_kicked", q.room_id, "all"),
                       Ev("messages_cleared", q.room_id, "room")>>
       /\ req' = [req EXCEPT ![s] = Finish(q, "ok")]
       /\ UNCHANGED <<presence, boot>>
       /\ UNCHANGED <<chat_rooms, room_messages, timers, now, ticks, used,
                      kicked_at, announced>>

\* ----------------------------------------------------------- transfer_admin

\* transfer_admin without the check of line 835.
TransferChecks_NoAdmin(q, doc) ==
    IF q.arg \notin doc.members THEN Finish(q, "not_member")
    ELSE [q EXCEPT !.pc = "set_admin"]

\* transfer_admin without the check of line 838.
TransferChecks_AnyTarget(q, doc) ==
    IF doc.admin_id # q.user_id THEN Finish(q, "not_admin")
    ELSE [q EXCEPT !.pc = "set_admin"]

\* lines 831-839: find_one and the checks. The request carries the requester
\* as user_id and the new admin as arg.
TransferChecks(q, doc) ==
    IF doc.admin_id # q.user_id THEN Finish(q, "not_admin")
    ELSE IF q.arg \notin doc.members THEN Finish(q, "not_member")
    ELSE [q EXCEPT !.pc = "set_admin"]

api_transfer_find(s) ==
    LET q == req[s]
    IN /\ q.op = "transfer" /\ q.pc = "read"
       /\ req' = [req EXCEPT ![s] =
              IF ~Exists(q.room_id) THEN Finish(q, "not_found")
              ELSE TransferChecks([q EXCEPT !.found = TRUE], find_one(q.room_id))]
       /\ Quiet
       /\ UNCHANGED <<presence, boot>>
       /\ UNCHANGED <<chat_rooms, room_messages, timers, now, ticks, used,
                      kicked_at, announced>>

\* lines 841-844: $set admin_id.
api_transfer_set(s) ==
    LET q == req[s]
        r == q.room_id
    IN /\ q.op = "transfer" /\ q.pc = "set_admin"
       /\ chat_rooms' = update_one(r, [find_one(r) EXCEPT !.admin_id = q.arg])
       /\ req' = [req EXCEPT ![s].pc = "emit"]
       /\ Quiet
       /\ UNCHANGED <<presence, boot>>
       /\ UNCHANGED <<room_messages, timers, now, ticks, used, kicked_at,
                      announced>>

\* lines 847-854: admin_transferred to the room's channel.
api_transfer_emit(s) ==
    LET q == req[s]
    IN /\ q.op = "transfer" /\ q.pc = "emit"
       /\ emitted' = <<Ev("admin_transferred", q.room_id, "room")>>
       /\ req' = [req EXCEPT ![s] = Finish(q, "ok")]
       /\ UNCHANGED <<presence, boot>>
       /\ UNCHANGED <<chat_rooms, room_messages, timers, now, ticks, used,
                      kicked_at, announced>>

\* ------------------------------------------------------------ failing emits

\* The first sio.emit of a handler raises after the handler's writes are
\* committed. join_room, leave_room, delete_room, kick_user and
\* transfer_admin await their emits outside any try: the exception leaves the
\* handler, nothing is emitted and the request is answered 500.
api_emit_fails(s) ==
    LET q == req[s]
    IN /\ q.op \in {"join", "leave", "delete", "kick", "transfer"}
       /\ q.pc \in {"emit", "emit_deleted"}
       /\ req' = [req EXCEPT ![s] = Finish(q, "server_error")]
       /\ Quiet
       /\ UNCHANGED <<presence, boot>>
       /\ UNCHANGED <<chat_rooms, room_messages, timers, now, ticks, used,
                      kicked_at, announced>>

\* -------------------------------------------------------- save_room_message

\* lines 870-878: insert_one of the message; the room is not looked up.
api_message_insert(s) ==
    LET q == req[s]
        r == q.room_id
    IN /\ q.op = "message" /\ q.pc = "read"
       /\ room_messages[r][q.user_id] < MaxMsgs
       /\ room_messages' = [room_messages EXCEPT ![r][q.user_id] = @ + 1]
       /\ req' = [req EXCEPT ![s].pc = "emit"]
       /\ Quiet
       /\ UNCHANGED <<presence, boot>>
       /\ UNCHANGED <<chat_rooms, timers, now, ticks, used, kicked_at,
                      announced>>

\* lines 882-887: room_list_updated to all, then the message.
api_message_emit(s) ==
    LET q == req[s]
    IN /\ q.op = "message" /\ q.pc = "emit"
       /\ emitted' = <<Ev("room_list_updated:new_message", q.room_id, "all")>>
       /\ req' = [req EXCEPT ![s] = Finish(q, "ok")]
       /\ UNCHANGED <<presence, boot>>
       /\ UNCHANGED <<chat_rooms, room_messages, timers, now, ticks, used,
                      kicked_at, announced>>

\* ----------------------------------------------------------------- get_room

\* A read that takes every room that has an expires_at for expired.
GetExpired_Always(doc, t) == doc.expires_at # NoTime

\* lines 587-595: `if "expires_at" in room`, `if expires_at <= now`.
GetExpired(doc, t) == doc.expires_at # NoTime /\ doc.expires_at <= t

\* lines 582-601: find_one; a document whose expires_at has passed is
\* deleted by the read itself, which then answers 410.
api_get_find(s) ==
    LET q == req[s]
        doc == find_one(q.room_id)
    IN /\ q.op = "get" /\ q.pc = "read"
       /\ req' = [req EXCEPT ![s] =
              IF ~Exists(q.room_id) THEN Finish(q, "not_found")
              ELSE IF GetExpired(doc, now)
              THEN [q EXCEPT !.found = TRUE, !.pc = "del_room"]
              ELSE Finish([q EXCEPT !.found = TRUE], "ok")]
       /\ Quiet
       /\ UNCHANGED <<presence, boot>>
       /\ UNCHANGED <<chat_rooms, room_messages, timers, now, ticks, used,
                      kicked_at, announced>>

\* line 597
api_get_delete_room(s) ==
    LET q == req[s]
    IN /\ q.op = "get" /\ q.pc = "del_room"
       /\ chat_rooms' = delete_one(q.room_id)
       /\ req' = [req EXCEPT ![s].pc = "del_msgs"]
       /\ Quiet
       /\ UNCHANGED <<presence, boot>>
       /\ UNCHANGED <<room_messages, timers, now, ticks, used, kicked_at,
                      announced>>

\* lines 598-599
api_get_delete_msgs(s) ==
    LET q == req[s]
    IN /\ q.op = "get" /\ q.pc = "del_msgs"
       /\ room_messages' = delete_many(q.room_id)
       /\ req' = [req EXCEPT ![s] = Finish([q EXCEPT !.room_deleted = TRUE], "expired")]
       /\ Quiet
       /\ UNCHANGED <<presence, boot>>
       /\ UNCHANGED <<chat_rooms, timers, now, ticks, used, kicked_at,
                      announced>>

\* --------------------------------------------------- schedule_room_deletion

\* A task that goes on to the deletion without looking at what it fetched.
TimerFetch_Blind(r) == "del_room"

\* lines 100-103: the task fetches the room and returns when it is gone.
TimerFetch(r) == IF Exists(r) THEN "del_room" ELSE "over"

\* lines 92-103: the task sleeps until expires_at, then fetches the room and
\* returns when it is gone.
timer_wake(r) ==
    /\ timers[r].pc = "sleep"
    /\ now >= timers[r].expires_at
    /\ timers' = [timers EXCEPT ![r].pc = TimerFetch(r)]
    /\ Quiet
    /\ UNCHANGED <<presence, boot>>
    /\ UNCHANGED <<chat_rooms, room_messages, req, now, ticks, used, kicked_at,
                   announced>>

\* line 106
timer_delete_room(r) ==
    /\ timers[r].pc = "del_room"
    /\ chat_rooms' = delete_one(r)
    /\ timers' = [timers EXCEPT ![r].pc = "del_msgs"]
    /\ Quiet
    /\ UNCHANGED <<presence, boot>>
    /\ UNCHANGED <<room_messages, req, now, ticks, used, kicked_at, announced>>

\* line 107
timer_delete_msgs(r) ==
    /\ timers[r].pc = "del_msgs"
    /\ room_messages' = delete_many(r)
    /\ timers' = [timers EXCEPT ![r].pc = "emit"]
    /\ Quiet
    /\ UNCHANGED <<presence, boot>>
    /\ UNCHANGED <<chat_rooms, req, now, ticks, used, kicked_at, announced>>

\* lines 112-121: room_expired to the room's channel, room_list_updated to all.
timer_emit(r) ==
    /\ timers[r].pc = "emit"
    /\ emitted' = <<Ev("room_expired", r, "room"),
                    Ev("room_list_updated:expired", r, "all")>>
    /\ announced' = [announced EXCEPT ![r].expired = @ + 1]
    /\ timers' = [timers EXCEPT ![r].pc = "over"]
    /\ UNCHANGED <<presence, boot>>
    /\ UNCHANGED <<chat_rooms, room_messages, req, now, ticks, used, kicked_at>>

\* A deletion attempt of the expiry task that fails: delete_one raises, the
\* handler of lines 123-124 logs the error and the task ends. Nothing retries.
timer_delete_room_fails(r) ==
    /\ timers[r].pc = "del_room"
    /\ timers' = [timers EXCEPT ![r].pc = "over"]
    /\ Quiet
    /\ UNCHANGED <<presence, boot>>
    /\ UNCHANGED <<chat_rooms, room_messages, req, now, ticks, used, kicked_at,
                   announced>>

\* ------------------------------------------- restart and startup_db_indexes

\* The process that runs and serves requests. Of startup_db_indexes it keeps
\* the `now` it read, the rooms it fetched and has not evaluated yet, the room
\* whose messages it is deleting, and how many expiry tasks it created for
\* each room.
Running == [pc |-> "up", now0 |-> 0, todo |-> <<>>, cur |-> NoStr, restarts |-> 0,
            armed |-> [r \in RoomIds |-> 0]]

\* The process dies and is started again: the coroutines in flight, the
\* expiry tasks and the in-memory presence tables are gone, the store stays.
\* startup_db_indexes runs before any request is served.
restart ==
    /\ boot.pc = "up"
    /\ boot.restarts < MaxRestarts
    /\ boot' = [boot EXCEPT !.pc = "find", !.restarts = @ + 1,
                            !.armed = [r \in RoomIds |-> 0]]
    /\ req' = [s \in Slots |-> IdleReq]
    /\ timers' = [r \in RoomIds |-> [pc |-> "none", expires_at |-> NoTime]]
    /\ live' = {}
    /\ user_sessions' = <<>>
    /\ connected_users' = <<>>
    /\ online_users' = {}
    /\ subs' = [c \in Sids |-> {}]
    /\ last_rt' = [op |-> "none", sid |-> NoStr, user_id |-> NoStr,
                   username |-> NoStr, old_sid |-> NoStr, old_live |-> FALSE]
    /\ Quiet
    /\ UNCHANGED <<chat_rooms, room_messages, now, ticks, used, kicked_at,
                   announced>>

\* lines 1038-1039: `now` is read, then the stored rooms are fetched; of each
\* the loop reads created_at and expires_at.
startup_find ==
    /\ boot.pc = "find"
    /\ boot' = [boot EXCEPT !.pc = "loop", !.now0 = now,
                            !.todo = [r \in DOMAIN chat_rooms |->
                                [created_at |-> chat_rooms[r].created_at,
                                 expires_at |-> chat_rooms[r].expires_at]]]
    /\ Quiet
    /\ UNCHANGED presence
    /\ UNCHANGED <<chat_rooms, room_messages, req, timers, now, ticks, used,
                   kicked_at, announced>>

\* The startup loop that never creates an expiry task.
StartupArm_Never(tm, r, expires_at) == tm

\* line 1075: asyncio.create_task(schedule_room_deletion(room_id, expires_at))
StartupArm(tm, r, expires_at) ==
    [tm EXCEPT ![r] = [pc |-> "sleep", expires_at |-> expires_at]]

\* lines 1044-1057: a fetched room without expires_at gets created_at + 12
\* hours, in the store and in the loop's local.
startup_backfill(r) ==
    /\ boot.pc = "loop"
    /\ r \in DOMAIN boot.todo
    /\ boot.todo[r].expires_at = NoTime
    /\ chat_rooms' = update_one(r,
           [find_one(r) EXCEPT !.expires_at = boot.todo[r].created_at + RoomTTL])
    /\ boot' = [boot EXCEPT !.todo[r].expires_at =
                                boot.todo[r].created_at + RoomTTL]
    /\ Quiet
    /\ UNCHANGED presence
    /\ UNCHANGED <<room_messages, req, timers, now, ticks, used, kicked_at,
                   announced>>

\* The comparison that lets a room live through the instant of its expiry.
Expired_Strict(expires_at, t) == expires_at < t

\* line 1069: if expires_at <= now
Expired(expires_at, t) == expires_at <= t

\* lines 1069-1070: a fetched room whose expires_at <= now is deleted.
startup_delete_room(r) ==
    /\ boot.pc = "loop"
    /\ r \in DOMAIN boot.todo
    /\ boot.todo[r].expires_at # NoTime
    /\ Expired(boot.todo[r].expires_at, boot.now0)
    /\ chat_rooms' = delete_one(r)
    /\ boot' = [boot EXCEPT !.pc = "del_msgs", !.cur = r,
                            !.todo = [x \in DOMAIN @ \ {r} |-> @[x]]]
    /\ Quiet
    /\ UNCHANGED presence
    /\ UNCHANGED <<room_messages, req, timers, now, ticks, used, kicked_at,
                   announced>>

\* line 1071: the cascade to the room's messages; the loop goes on.
startup_delete_msgs ==
    /\ boot.pc = "del_msgs"
    /\ room_messages' = delete_many(boot.cur)
    /\ boot' = [boot EXCEPT !.pc = "loop", !.cur = NoStr]
    /\ Quiet
    /\ UNCHANGED presence
    /\ UNCHANGED <<chat_rooms, req, timers, now, ticks, used, kicked_at,
                   announced>>

\* lines 1073-1076: a fetched room that has not expired gets its expiry task.
startup_arm(r) ==
    /\ boot.pc = "loop"
    /\ r \in DOMAIN boot.todo
    /\ boot.todo[r].expires_at # NoTime
    /\ ~Expired(boot.todo[r].expires_at, boot.now0)
    /\ timers' = StartupArm(timers, r, boot.todo[r].expires_at)
    /\ boot' = [boot EXCEPT !.todo = [x \in DOMAIN @ \ {r} |-> @[x]],
                            !.armed[r] = @ + 1]
    /\ Quiet
    /\ UNCHANGED presence
    /\ UNCHANGED <<chat_rooms, room_messages, req, now, ticks, used, kicked_at,
                   announced>>

\* Evaluating a fetched room raises (an expires_at that is no datetime, a
\* store call that fails): the handler of lines 1078-1079 logs the error and
\* startup_db_indexes returns. The rooms not evaluated yet are left as they are.
startup_fails ==
    /\ \/ boot.pc = "loop" /\ DOMAIN boot.todo # {}
       \/ boot.pc = "del_msgs"
    /\ boot' = [boot EXCEPT !.pc = "up", !.now0 = 0, !.todo = <<>>,
                            !.cur = NoStr]
    /\ Quiet
    /\ UNCHANGED presence
    /\ UNCHANGED <<chat_rooms, room_messages, req, timers, now, ticks, used,
                   kicked_at, announced>>

\* The loop is over: the application starts serving.
startup_done ==
    /\ boot.pc = "loop"
    /\ DOMAIN boot.todo = {}
    /\ boot' = [boot EXCEPT !.pc = "up", !.now0 = 0]
    /\ Quiet
    /\ UNCHANGED presence
    /\ UNCHANGED <<chat_rooms, room_messages, req, timers, now, ticks, used,
                   kicked_at, announced>>

\* Time passes up to instant t.
TickTo(t) ==
    /\ now < t
    /\ now' = t
    /\ Quiet
    /\ UNCHANGED <<presence, boot>>
    /\ UNCHANGED <<chat_rooms, room_messages, req, timers, ticks, used,
                   kicked_at, announced>>

\* Whether the clock may advance by d: startup takes no time, and the expiry
\* task of a stored room is run within one tick interval of the instant its
\* sleep ends.
Timely(d) ==
    /\ boot.pc = "up"
    /\ \A r \in DOMAIN chat_rooms :
           timers[r].pc \in {"sleep", "del_room"}
           => now + d <= timers[r].expires_at + MonitorInterval

\* ----------------------------------------------------- realtime: presence

\* The presence tables as one value, so that a handler's steps compose.
Tables == [us |-> user_sessions, cu |-> connected_users, ou |-> online_users,
           lv |-> live, sb |-> subs]

\* dict.pop(k, None) and dict[k] = v
DropKey(f, k) == [x \in DOMAIN f \ {k} |-> f[x]]
Put(f, k, v) == [x \in DOMAIN f \cup {k} |-> IF x = k THEN v ELSE f[x]]

\* The session connect stores: no user_id, no username.
AnonSession == [user_id |-> NoStr, username |-> NoStr]

NoEvent == [op |-> "none", sid |-> NoStr, user_id |-> NoStr,
            username |-> NoStr, old_sid |-> NoStr, old_live |-> FALSE]

\* What the handlers see of an event: data.get(...) is None for a missing key.
EventIds == {NoStr, "u1", "u2"}
EventNames == {NoStr, "ann"}

\* A disconnect that leaves the user in the online set.
disconnect_tables_KeepOnline(P, c) ==
    IF c \in DOMAIN P.us
    THEN LET uid == P.us[c].user_id
         IN [P EXCEPT !.cu = IF TruthyStr(uid) THEN DropKey(@, uid) ELSE @,
                      !.us = DropKey(@, c)]
    ELSE P

\* disconnect, lines 100-110: the tables after the handler ran for c.
disconnect_tables(P, c) ==
    IF c \in DOMAIN P.us
    THEN LET uid == P.us[c].user_id
         IN [P EXCEPT !.cu = IF TruthyStr(uid) THEN DropKey(@, uid) ELSE @,
                      !.ou = IF TruthyStr(uid) THEN @ \ {uid} ELSE @,
                      !.us = DropKey(@, c)]
    ELSE P

\* disconnect, lines 113-117: user_offline to all, for a session that carries
\* a user_id and a username.
disconnect_events(P, c) ==
    IF c \in DOMAIN P.us /\ TruthyStr(P.us[c].user_id)
       /\ TruthyStr(P.us[c].username)
    THEN <<[name |-> "user_offline", room_id |-> NoStr, to |-> "all",
            user_id |-> P.us[c].user_id, username |-> P.us[c].username,
            rcpt |-> P.lv \ {c}]>>
    ELSE <<>>

\* The transport closes c (the peer went away, or sio.disconnect(c)): the
\* disconnect handler runs, then c leaves every channel.
Close(P, c) ==
    [disconnect_tables(P, c) EXCEPT !.lv = @ \ {c}, !.sb[c] = {}]

\* A handler stores the identity an event carries, when it carries both parts.
StoreIdentity(P, c, nick, uid) ==
    IF TruthyStr(nick) /\ TruthyStr(uid)
    THEN [P EXCEPT !.us = Put(@, c, [user_id |-> uid, username |-> nick])]
    ELSE P

\* set_nickname, lines 65-69: the connection the user_id was bound to is
\* disconnected when it has a session.
Evicted(P, uid) ==
    IF uid \in DOMAIN P.cu /\ P.cu[uid] \in DOMAIN P.us THEN {P.cu[uid]} ELSE {}

\* A set_nickname that binds the connection and forgets the online set.
set_nickname_tables_NoOnline(P, c, nick, uid) ==
    LET P1 == StoreIdentity(P, c, nick, uid)
        old == Evicted(P1, uid)
        P2 == IF old = {} THEN P1 ELSE Close(P1, CHOOSE x \in old : TRUE)
    IN [P2 EXCEPT !.cu = Put(@, uid, c)]

\* set_nickname, lines 53-72: the tables after the handler.
set_nickname_tables(P, c, nick, uid) ==
    LET P1 == StoreIdentity(P, c, nick, uid)
        old == Evicted(P1, uid)
        P2 == IF old = {} THEN P1 ELSE Close(P1, CHOOSE x \in old : TRUE)
    IN [P2 EXCEPT !.cu = Put(@, uid, c), !.ou = @ \cup {uid}]

SetTables(P) ==
    /\ user_sessions' = P.us
    /\ connected_users' = P.cu
    /\ online_users' = P.ou
    /\ live' = P.lv
    /\ subs' = P.sb

StoreUnchanged ==
    UNCHANGED <<chat_rooms, room_messages, req, timers, now, ticks, used,
                kicked_at, announced, boot>>

\* connect, lines 35-47
connect(c) ==
    /\ c \notin live
    /\ SetTables([Tables EXCEPT !.lv = @ \cup {c}, !.us = Put(@, c, AnonSession)])
    /\ last_rt' = [NoEvent EXCEPT !.op = "connect", !.sid = c]
    /\ Quiet
    /\ StoreUnchanged

\* set_nickname, lines 50-93. enter_room of line 75 raises for a connection
\* that is closed by then, and the handler emits nothing.
set_nickname(c, nick, uid) ==
    LET P == Tables
        P1 == StoreIdentity(P, c, nick, uid)
        old == Evicted(P1, uid)
        P3 == set_nickname_tables(P, c, nick, uid)
    IN /\ c \in live
       /\ SetTables(P3)
       /\ last_rt' = [op |-> "set_nickname", sid |-> c, user_id |-> uid,
                      username |-> nick,
                      old_sid |-> IF uid \in DOMAIN P.cu THEN P.cu[uid] ELSE NoStr,
                      old_live |-> uid \in DOMAIN P.cu /\ P.cu[uid] \in live]
       /\ emitted' =
              (IF old = {} THEN <<>>
               ELSE disconnect_events(P1, CHOOSE x \in old : TRUE))
              \o (IF c \in P3.lv
                  THEN <<[name |-> "user_online", room_id |-> NoStr,
                          to |-> "all_but_sender", user_id |-> uid,
                          rcpt |-> P3.lv \ {c}],
                         [name |-> "online_users", room_id |-> NoStr,
                          to |-> "sender", user_id |-> uid, rcpt |-> {c}]>>
                  ELSE <<>>)
       /\ StoreUnchanged

\* disconnect, lines 96-121: the peer went away.
disconnect(c) ==
    /\ c \in live
    /\ SetTables(Close(Tables, c))
    /\ last_rt' = [NoEvent EXCEPT !.op = "disconnect", !.sid = c,
                                  !.user_id = user_sessions[c].user_id]
    /\ emitted' = disconnect_events(Tables, c)
    /\ StoreUnchanged

\* join_room of socketio_server.py, lines 176-210: the session takes the
\* identity the event carries, the connection enters the room's channel,
\* user_joined_room goes to the rest of the channel.
sio_join_room(c, r, nick, uid) ==
    LET P1 == StoreIdentity(Tables, c, nick, uid)
        P2 == [P1 EXCEPT !.sb[c] = @ \cup {r}]
    IN /\ c \in live
       /\ SetTables(P2)
       /\ last_rt' = [NoEvent EXCEPT !.op = "join_room", !.sid = c,
                                     !.user_id = uid, !.username = nick]
       /\ emitted' = <<[name |-> "user_joined_room", room_id |-> r,
                        to |-> "room_but_sender", user_id |-> P2.us[c].user_id,
                        rcpt |-> {x \in P2.lv : r \in P2.sb[x]} \ {c}]>>
       /\ StoreUnchanged

\* leave_room of socketio_server.py, lines 213-239. user['user_id'] raises
\* for a session that carries none, and the handler does nothing.
sio_leave_room(c, r) ==
    /\ c \in live
    /\ IF TruthyStr(user_sessions[c].user_id)
       THEN /\ SetTables([Tables EXCEPT !.sb[c] = @ \ {r}])
            /\ emitted' = <<[name |-> "user_left_room", room_id |-> r,
                             to |-> "room_but_sender",
                             user_id |-> user_sessions[c].user_id,
                             rcpt |-> Channel(r) \ {c}]>>
       ELSE /\ SetTables(Tables)
            /\ Quiet
    /\ last_rt' = [NoEvent EXCEPT !.op = "leave_room", !.sid = c]
    /\ StoreUnchanged

\* send_room_message, lines 242-281: the session takes the identity the
\* event carries; receive_room_message goes to the room's channel.
sio_send_room_message(c, r, nick, uid) ==
    LET P1 == StoreIdentity(Tables, c, nick, uid)
    IN /\ c \in live
       /\ SetTables(P1)
       /\ last_rt' = [NoEvent EXCEPT !.op = "send_room_message", !.sid = c,
                                     !.user_id = uid, !.username = nick]
       /\ emitted' = <<[name |-> "receive_room_message", room_id |-> r,
                        to |-> "room", user_id |-> P1.us[c].user_id,
                        rcpt |-> Channel(r)]>>
       /\ StoreUnchanged

\* An event handed to sio.emit with room=<one connection>.
ToSid(name, uid, c) ==
    [name |-> name, room_id |-> NoStr, to |-> "sid", user_id |-> uid,
     rcpt |-> {c} \cap live]

\* send_message, lines 124-173, for an event that carries a message text:
\* `error` for a connection without session and for a missing recipient_id;
\* sender['user_id'] raises for a session that carries none, and the handler
\* of line 171 emits `error`; else receive_message goes to the connection
\* connected_users holds for the recipient, if any, and message_sent with the
\* status to the sender.
sio_send_message(c, rid) ==
    /\ c \in live
    /\ SetTables(Tables)
    /\ last_rt' = [NoEvent EXCEPT !.op = "send_message", !.sid = c,
                                  !.user_id = rid]
    /\ emitted' =
          IF c \notin DOMAIN user_sessions
          THEN <<ToSid("error:not_authenticated", NoStr, c)>>
          ELSE IF ~TruthyStr(rid)
          THEN <<ToSid("error:invalid_message_data", NoStr, c)>>
          ELSE IF ~TruthyStr(user_sessions[c].user_id)
          THEN <<ToSid("error:failed_to_send", NoStr, c)>>
          ELSE IF rid \in DOMAIN connected_users
          THEN <<ToSid("receive_message", rid, connected_users[rid]),
                 ToSid("message_sent:delivered", rid, c)>>
          ELSE <<ToSid("message_sent:queued", rid, c)>>
    /\ StoreUnchanged

\* ----------------------------------------------------------- specifications

Init ==
    /\ chat_rooms = <<>>
    /\ room_messages = [r \in RoomIds |-> [u \in Users |-> 0]]
    /\ req = [s \in Slots |-> IdleReq]
    /\ timers = [r \in RoomIds |-> [pc |-> "none", expires_at |-> NoTime]]
    /\ now = 0
    /\ ticks = 0
    /\ emitted = <<>>
    /\ used = {}
    /\ kicked_at = [r \in RoomIds |-> [u \in Users |-> NoTime]]
    /\ announced = [r \in RoomIds |-> [deleted |-> 0, expired |-> 0]]
    /\ live = {}
    /\ user_sessions = <<>>
    /\ connected_users = <<>>
    /\ online_users = {}
    /\ subs = [c \in Sids |-> {}]
    /\ last_rt = NoEvent
    /\ boot = Running

\* The argument each kind of request carries besides the room and the user.
ArgsOf(op) ==
    CASE op = "join" -> JoinPasswords
      [] op \in {"kick", "transfer"} -> Users
      [] OTHER -> {NoStr}

Ops == {"join", "leave", "delete", "kick", "transfer", "message", "get"}

\* The requests that change a room's membership, admin or existence.
MembershipOps == {"join", "leave", "kick", "transfer", "delete"}

JoinSteps(s) ==
    \/ api_join_find(s) \/ api_join_pull_ban(s) \/ api_join_add(s)
    \/ api_join_emit(s)

LeaveSteps(s) ==
    \/ api_leave_find(s) \/ api_leave_delete_room(s) \/ api_leave_delete_msgs(s)
    \/ api_leave_emit_deleted(s) \/ api_leave_pull(s) \/ api_leave_emit(s)

DeleteSteps(s) ==
    \/ api_delete_find(s) \/ api_delete_delete_room(s)
    \/ api_delete_delete_msgs(s) \/ api_delete_emit(s)

KickSteps(s) ==
    \/ api_kick_find(s) \/ api_kick_delete_msgs(s) \/ api_kick_ban(s)
    \/ api_kick_emit(s)

TransferSteps(s) ==
    \/ api_transfer_find(s) \/ api_transfer_set(s) \/ api_transfer_emit(s)

MessageSteps(s) == api_message_insert(s) \/ api_message_emit(s)

GetSteps(s) ==
    \/ api_get_find(s) \/ api_get_delete_room(s) \/ api_get_delete_msgs(s)

TimerSteps(r) ==
    \/ timer_wake(r) \/ timer_delete_room(r) \/ timer_delete_msgs(r)
    \/ timer_emit(r)

\* Membership, one request at a time on one room: joins, kicks and leaves,
\* the clock, read from the room's creation on, stepping around a ban's end.
NextJoin ==
    \/ Exists("r1") /\ \E d \in BanSteps : Tick(d)
    \/ \E pw \in RoomPasswords, mx \in MaxMembersValues :
           create_room("r1", "u1", pw, mx)
    \/ \E op \in {"join", "kick", "leave"}, u \in Users :
           \E a \in ArgsOf(op) : Request("s1", op, "r1", u, a, TRUE)
    \/ JoinSteps("s1")
    \/ KickSteps("s1")
    \/ LeaveSteps("s1")

SpecJoin == Init /\ [][NextJoin]_vars

\* Deletion, one request at a time on one room: messages, reads, leaves and
\* deletes, with the room's expiry task and the clock stepping around the
\* room's expiry.
NextLife ==
    \/ \E d \in TTLSteps : Tick(d)
    \/ create_room("r1", "u1", NoStr, NoMax)
    \/ \E op \in {"leave", "delete", "message", "get"}, u \in {"u1", "u2"} :
           Request("s1", op, "r1", u, NoStr, TRUE)
    \/ LeaveSteps("s1")
    \/ DeleteSteps("s1")
    \/ MessageSteps("s1")
    \/ GetSteps("s1")
    \/ TimerSteps("r1")

SpecLife == Init /\ [][NextLife]_vars

\* Membership under concurrency: two coroutines interleave at their awaits on
\* one room; the clock steps over a ban at most MaxRaceTicks times.
NextConc ==
    \/ \E mx \in {NoMax, MaxCap} : create_room("r1", "u1", NoStr, mx)
    \/ \E s \in Slots, u \in Users : Request(s, "join", "r1", u, NoStr, FALSE)
    \/ \E u \in Users : Request("s1", "leave", "r1", u, NoStr, FALSE)
    \/ \E op \in {"kick", "transfer"}, a \in Users \ {"u1"} :
           Request("s2", op, "r1", "u1", a, FALSE)
    \/ \E s \in Slots : JoinSteps(s)
    \/ LeaveSteps("s1")
    \/ KickSteps("s2")
    \/ TransferSteps("s2")
    \/ /\ ticks < MaxRaceTicks
       /\ Exists("r1")
       /\ \E i \in DOMAIN chat_rooms["r1"].banned_users :
              chat_rooms["r1"].banned_users[i].banned_until > now
       /\ Tick(BanDuration)

SpecConc == Init /\ [][NextConc]_vars

\* Deletion under concurrency: leaves and deletes of two coroutines interleave
\* with each other and with the room's expiry task.
NextExpiry ==
    \/ \E d \in TTLSteps : Tick(d)
    \/ create_room("r1", "u1", NoStr, NoMax)
    \/ \E s \in Slots, op \in {"leave", "delete"}, u \in {"u1", "u2"} :
           Request(s, op, "r1", u, NoStr, FALSE)
    \/ \E s \in Slots : LeaveSteps(s)
    \/ \E s \in Slots : DeleteSteps(s)
    \/ TimerSteps("r1")

SpecExpiry == Init /\ [][NextExpiry]_vars

\* Presence: the realtime events of two connections.
NextPresence ==
    \/ \E c \in PresenceSids : connect(c)
    \/ \E c \in PresenceSids : disconnect(c)
    \/ \E c \in PresenceSids, nick \in EventNames, uid \in EventIds :
           set_nickname(c, nick, uid)
    \/ \E c \in PresenceSids, nick \in EventNames, uid \in EventIds :
           sio_join_room(c, "r1", nick, uid)
    \/ \E c \in PresenceSids : sio_leave_room(c, "r1")
    \/ \E c \in PresenceSids, nick \in EventNames, uid \in EventIds :
           sio_send_room_message(c, "r1", nick, uid)
    \/ \E c \in PresenceSids, rid \in EventIds : sio_send_message(c, rid)

SpecPresence == Init /\ [][NextPresence]_vars

\* The steps of startup_db_indexes.
StartupSteps ==
    \/ startup_find
    \/ \E r \in RoomIds : startup_delete_room(r)
    \/ startup_delete_msgs
    \/ \E r \in RoomIds : startup_arm(r)
    \/ startup_done

\* Time reaches the expiry of a stored room.
ExpiryComes == \E r \in DOMAIN chat_rooms : TickTo(chat_rooms[r].expires_at)

\* Expiry across restarts: one room, its expiry task, joins, the process
\* restarting and reconciling, the clock stepping around the room's expiry.
NextRestart ==
    \/ boot.pc = "up" /\ create_room("r1", "u1", NoStr, NoMax)
    \/ boot.pc = "up" /\ Request("s1", "join", "r1", "u2", NoStr, TRUE)
    \/ api_join_find("s1")
    \/ api_join_add("s1")
    \/ api_join_emit("s1")
    \/ TimerSteps("r1")
    \/ restart
    \/ StartupSteps
    \/ boot.pc = "up" /\ ExpiryComes
    \/ \E d \in LateSteps : Timely(d) /\ Tick(d)

\* Timers and store operations are scheduled fairly, and time passes.
SpecRestart ==
    /\ Init
    /\ [][NextRestart]_vars
    /\ WF_vars(TimerSteps("r1"))
    /\ WF_vars(StartupSteps)
    /\ WF_vars(boot.pc = "up" /\ ExpiryComes)

\* The same, with store operations of the expiry task that may fail.
NextFailure ==
    \/ NextRestart
    \/ timer_delete_room_fails("r1")

SpecFailure == Init /\ [][NextFailure]_vars

\* Requests on a room that is being deleted: two coroutines interleave with
\* each other and with the room's expiry task, every request kept on record.
NextGone ==
    \/ create_room("r1", "u1", NoStr, NoMax)
    \/ \E s \in Slots : Request(s, "join", "r1", "u2", NoStr, TRUE)
    \/ \E s \in Slots, u \in {"u1", "u2"} :
           Request(s, "leave", "r1", u, NoStr, TRUE)
    \/ \E op \in {"kick", "transfer"} : Request("s1", op, "r1", "u1", "u2", TRUE)
    \/ Request("s2", "delete", "r1", "u1", NoStr, TRUE)
    \/ \E s \in Slots : api_join_find(s) \/ api_join_add(s) \/ api_join_emit(s)
    \/ \E s \in Slots : LeaveSteps(s)
    \/ DeleteSteps("s2")
    \/ KickSteps("s1")
    \/ TransferSteps("s1")
    \/ TimerSteps("r1")
    \/ ExpiryComes

SpecGone == Init /\ [][NextGone]_vars

\* Administration, one request at a time on one room: joins, leaves, kicks,
\* transfers and deletes, by the creator and by others; the clock stands
\* still, so no ban ends.
NextAdmin ==
    \/ create_room("r1", "u1", NoStr, NoMax)
    \/ \E u \in {"u2", "u3"} : Request("s1", "join", "r1", u, NoStr, TRUE)
    \/ \E op \in {"leave", "delete"}, u \in Users :
           Request("s1", op, "r1", u, NoStr, TRUE)
    \/ \E op \in {"kick", "transfer"}, u \in Users, a \in Users :
           Request("s1", op, "r1", u, a, TRUE)
    \/ api_join_find("s1") \/ api_join_add("s1") \/ api_join_emit("s1")
    \/ LeaveSteps("s1")
    \/ DeleteSteps("s1")
    \/ KickSteps("s1")
    \/ TransferSteps("s1")

SpecAdmin == Init /\ [][NextAdmin]_vars

\* The same, with emits that may fail.
NextEmitFailure ==
    \/ NextAdmin
    \/ api_emit_fails("s1")

SpecEmitFailure == Init /\ [][NextEmitFailure]_vars

\* Kicks, one request at a time on one room: joins, kicks by the admin and by
\* a member, messages stored by two authors and for two room ids, the clock
\* stepping over a ban.
NextKick ==
    \/ /\ ticks < MaxRaceTicks
       /\ Exists("r1")
       /\ \E d \in {1, BanDuration} : Tick(d)
    \/ create_room("r1", "u1", NoStr, NoMax)
    \/ \E u \in {"u2", "u3"} : Request("s1", "join", "r1", u, NoStr, TRUE)
    \/ \E u \in {"u1", "u2"}, a \in Users : Request("s1", "kick", "r1", u, a, TRUE)
    \/ \E m \in {<<"r1", "u1">>, <<"r1", "u2">>, <<"r2", "u2">>} :
           Request("s1", "message", m[1], m[2], NoStr, FALSE)
    \/ JoinSteps("s1")
    \/ KickSteps("s1")
    \/ MessageSteps("s1")

SpecKick == Init /\ [][NextKick]_vars

\* Leaves, one request at a time on one room: joins, stored messages, a
\* transfer of the admin role, and leaves by the admin, by members and by
\* users who are not members.
NextLeave ==
    \/ create_room("r1", "u1", NoStr, NoMax)
    \/ \E u \in {"u2", "u3"} : Request("s1", "join", "r1", u, NoStr, TRUE)
    \/ \E a \in {"u2", "u3"} : Request("s1", "transfer", "r1", "u1", a, TRUE)
    \/ \E u \in {"u1", "u2"} : Request("s1", "message", "r1", u, NoStr, TRUE)
    \/ \E u \in Users : Request("s1", "leave", "r1", u, NoStr, TRUE)
    \/ api_join_find("s1") \/ api_join_add("s1") \/ api_join_emit("s1")
    \/ TransferSteps("s1")
    \/ MessageSteps("s1")
    \/ LeaveSteps("s1")

SpecLeave == Init /\ [][NextLeave]_vars

\* Messages under concurrency: the sends and joins of one coroutine interleave
\* with the admin's kicks in another.
NextSend ==
    \/ create_room("r1", "u1", NoStr, NoMax)
    \/ Request("s1", "join", "r1", "u2", NoStr, FALSE)
    \/ \E u \in {"u1", "u2"} : Request("s1", "message", "r1", u, NoStr, FALSE)
    \/ Request("s2", "kick", "r1", "u1", "u2", TRUE)
    \/ api_join_find("s1") \/ api_join_add("s1") \/ api_join_emit("s1")
    \/ MessageSteps("s1")
    \/ KickSteps("s2")

SpecSend == Init /\ [][NextSend]_vars

\* The sleep of an expiry task ends.
TimerDue == \E r \in RoomIds : timers[r].pc = "sleep" /\ TickTo(timers[r].expires_at)

\* The expiry task and its events: one room with stored messages, connections
\* inside and outside the room's channel, the admin's delete, and the task
\* waking on a room that is stored or gone.
NextTimer ==
    \/ create_room("r1", "u1", NoStr, NoMax)
    \/ \E c \in PresenceSids : connect(c)
    \/ sio_join_room("c1", "r1", "ann", "u1")
    \/ \E u \in {"u1", "u2"} : Request("s1", "message", "r1", u, NoStr, FALSE)
    \/ Request("s1", "delete", "r1", "u1", NoStr, FALSE)
    \/ MessageSteps("s1")
    \/ DeleteSteps("s1")
    \/ TimerSteps("r1")
    \/ TimerDue

SpecTimer == Init /\ [][NextTimer]_vars

\* Startup reconciliation: two rooms, written with or without expires_at,
\* messages stored for them, the clock, read while a room is stored,
\* stepping by a second and by a room's lifetime, and the process
\* restarting.
NextStartup ==
    \/ boot.pc = "up" /\ \E r \in RoomIds : create_room(r, "u1", NoStr, NoMax)
    \/ boot.pc = "up" /\ boot.restarts = 0
           /\ \E r \in RoomIds : legacy_room(r, "u1")
    \/ boot.pc = "up" /\ \E r \in DOMAIN chat_rooms :
           Request("s1", "message", r, "u1", NoStr, FALSE)
    \/ MessageSteps("s1")
    \/ \E r \in RoomIds : TimerSteps(r)
    \/ restart
    \/ StartupSteps
    \/ \E r \in RoomIds : startup_backfill(r)
    \/ boot.pc = "up" /\ DOMAIN chat_rooms # {}
           /\ \E d \in {1, RoomTTL} : Tick(d)

SpecStartup == Init /\ [][NextStartup]_vars

\* The same, with a startup pass that an error ends.
NextStartupFailure ==
    \/ NextStartup
    \/ startup_fails

SpecStartupFailure == Init /\ [][NextStartupFailure]_vars

\* What the handlers leave alone: one room, written with or without
\* expires_at, its members coming and going, kicks and transfers of the
\* admin role, and the process restarting once the room's lifetime is
\* under way.
NextFrame ==
    \/ boot.pc = "up" /\ create_room("r1", "u1", NoStr, NoMax)
    \/ boot.pc = "up" /\ boot.restarts = 0 /\ legacy_room("r1", "u1")
    \/ boot.pc = "up" /\ \E op \in {"join", "leave"} :
           Request("s1", op, "r1", "u2", NoStr, FALSE)
    \/ boot.pc = "up" /\ \E op \in {"kick", "transfer"} :
           Request("s1", op, "r1", "u1", "u2", FALSE)
    \/ JoinSteps("s1")
    \/ LeaveSteps("s1")
    \/ KickSteps("s1")
    \/ TransferSteps("s1")
    \/ TimerSteps("r1")
    \/ restart
    \/ StartupSteps
    \/ startup_backfill("r1")
    \/ boot.pc = "up" /\ \E d \in {1, BanDuration, RoomTTL} : Tick(d)

SpecFrame == Init /\ [][NextFrame]_vars

\* Refusals: one request at a time on one room that may have a password and
\* room for its creator only; every membership request of the creator and of
\* another user, kept on record, messages of that user, and the clock stepping
\* around a ban's end.
NextRefusal ==
    \/ Exists("r1") /\ \E d \in BanSteps : Tick(d)
    \/ \E pw \in RoomPasswords, mx \in {NoMax, 1} :
           create_room("r1", "u1", pw, mx)
    \/ \E u \in {"u1", "u2"}, a \in JoinPasswords :
           Request("s1", "join", "r1", u, a, TRUE)
    \/ \E op \in {"leave", "delete"}, u \in {"u1", "u2"} :
           Request("s1", op, "r1", u, NoStr, TRUE)
    \/ \E op \in {"kick", "transfer"}, u \in {"u1", "u2"}, a \in {"u1", "u2"} :
           Request("s1", op, "r1", u, a, TRUE)
    \/ Request("s1", "message", "r1", "u2", NoStr, TRUE)
    \/ JoinSteps("s1")
    \/ LeaveSteps("s1")
    \/ DeleteSteps("s1")
    \/ KickSteps("s1")
    \/ TransferSteps("s1")
    \/ MessageSteps("s1")

SpecRefusal == Init /\ [][NextRefusal]_vars

\* Every way a room leaves the store: one room, every request on it by its
\* admin and by a member, the room's expiry task, the process restarting, and
\* the clock stepping around the room's expiry.
NextRemoval ==
    \/ boot.pc = "up" /\ create_room("r1", "u1", NoStr, NoMax)
    \/ boot.pc = "up" /\ \E op \in {"join", "leave", "delete", "message", "get"} :
           Request("s1", op, "r1", "u2", NoStr, FALSE)
    \/ boot.pc = "up" /\ \E op \in {"leave", "delete"} :
           Request("s1", op, "r1", "u1", NoStr, FALSE)
    \/ boot.pc = "up" /\ \E op \in {"kick", "transfer"} :
           Request("s1", op, "r1", "u1", "u2", FALSE)
    \/ JoinSteps("s1")
    \/ LeaveSteps("s1")
    \/ DeleteSteps("s1")
    \/ KickSteps("s1")
    \/ TransferSteps("s1")
    \/ MessageSteps("s1")
    \/ GetSteps("s1")
    \/ TimerSteps("r1")
    \/ restart
    \/ StartupSteps
    \/ boot.pc = "up" /\ \E d \in TTLSteps : Tick(d)

SpecRemoval == Init /\ [][NextRemoval]_vars

\* The events of a kick: the admin and a member, each on a connection of its
\* own that may have entered the room's channel, and the admin's kick of the
\* member.
NextNotify ==
    \/ create_room("r1", "u1", NoStr, NoMax)
    \/ \E c \in PresenceSids : connect(c)
    \/ \E c \in PresenceSids : disconnect(c)
    \/ set_nickname("c1", "ann", "u1")
    \/ set_nickname("c2", "bob", "u2")
    \/ sio_join_room("c1", "r1", "ann", "u1")
    \/ sio_join_room("c2", "r1", "bob", "u2")
    \/ Request("s1", "join", "r1", "u2", NoStr, FALSE)
    \/ Request("s1", "kick", "r1", "u1", "u2", TRUE)
    \/ api_join_find("s1") \/ api_join_add("s1") \/ api_join_emit("s1")
    \/ KickSteps("s1")

SpecNotify == Init /\ [][NextNotify]_vars

\* The channel of a room around a kick: the admin and a member, each on a
\* connection of its own, entering and leaving the room's channel and sending
\* room messages, and the admin's kick of the member.
NextSubscribed ==
    \/ NextNotify
    \/ sio_send_room_message("c1", "r1", "ann", "u1")
    \/ sio_send_room_message("c2", "r1", "bob", "u2")
    \/ \E c \in PresenceSids : sio_leave_room(c, "r1")

SpecSubscribed == Init /\ [][NextSubscribed]_vars

\* ------------------------------------------------------------------- claims

DoneJoin(s) == req[s].op = "join" /\ req[s].pc = "done"

\* The ban entries of user u in a document.
BansOf(doc, u) ==
    {i \in 1 .. Len(doc.banned_users) : doc.banned_users[i].user_id = u}

\* Whether the document holds a ban entry of u that ends after time t.
BannedAt(doc, u, t) ==
    \E i \in BansOf(doc, u) : doc.banned_users[i].banned_until > t

\* Whether a kick of the request's user committed, and when its ban ends.
WasKicked(q) == kicked_at[q.room_id][q.user_id] # NoTime
BanEnd(q) == kicked_at[q.room_id][q.user_id] + BanDuration

\* C1: for a room whose max_members is set, after any sequence of join
\* requests applied one at a time the member count is at most max_members.
\* (Checked under SpecJoin; a room created with max_members = 0 breaks it.)
C1_JoinsKeepCapacity ==
    \A s \in Slots :
        (DoneJoin(s) /\ Exists(req[s].room_id)
            /\ chat_rooms[req[s].room_id].max_members # NoMax)
        => Cardinality(chat_rooms[req[s].room_id].members)
               <= chat_rooms[req[s].room_id].max_members

\* C5: a join by a user who is already a member and has no active ban
\* succeeds whatever the password and the occupancy, and leaves the member
\* set as it was.
C5_MemberJoinIdempotent ==
    \A s \in Slots :
        LET q == req[s]
        IN (DoneJoin(s) /\ q.found /\ q.user_id \in q.room.members
               /\ ~BannedAt(q.room, q.user_id, q.now0))
           => /\ q.result = "ok"
              /\ Exists(q.room_id)
              /\ chat_rooms[q.room_id].members = q.room.members

\* C5's case: a member joined a full room with the wrong password, and the
\* join succeeded.
C5_Witness ==
    \E s \in Slots :
        LET q == req[s]
        IN /\ DoneJoin(s) /\ q.found /\ q.user_id \in q.room.members
           /\ TruthyStr(q.room.password) /\ q.arg # q.room.password
           /\ TruthyInt(q.room.max_members)
           /\ Cardinality(q.room.members) >= q.room.max_members
           /\ q.result = "ok"

\* C6: after a kick of X from R committed at time T, a join(R, X) evaluated
\* strictly before T + 5 minutes is refused as Forbidden (403, banned) and X
\* is not a member of R, requests on R being applied one at a time.
C6_BannedJoinRefused ==
    \A s \in Slots :
        LET q == req[s]
        IN (DoneJoin(s) /\ q.found /\ WasKicked(q) /\ q.now0 < BanEnd(q))
           => /\ q.result = "banned"
              /\ Status(q.result) = 403
              /\ Exists(q.room_id) => q.user_id \notin chat_rooms[q.room_id].members

\* C6's case: the kicked user's join at the last second of the ban, refused.
C6_Witness ==
    \E s \in Slots :
        LET q == req[s]
        IN /\ DoneJoin(s) /\ q.found /\ WasKicked(q)
           /\ q.now0 = BanEnd(q) - 1
           /\ q.result = "banned"

\* C7 as stated: after a kick of X from R committed at time T, a join(R, X)
\* evaluated at or after T + 5 minutes succeeds, makes X a member again and
\* leaves no ban entry for X in R.
C7_JoinAfterBanSucceeds ==
    \A s \in Slots :
        LET q == req[s]
        IN (DoneJoin(s) /\ q.found /\ WasKicked(q) /\ q.now0 >= BanEnd(q))
           => /\ q.result = "ok"
              /\ Exists(q.room_id)
              /\ q.user_id \in chat_rooms[q.room_id].members
              /\ BansOf(chat_rooms[q.room_id], q.user_id) = {}

\* C7 as amended: such a join is never refused for the ban and leaves no ban
\* entry for X in R; it succeeds and makes X a member again whenever the
\* password matches (or R has none) and R has no max_members or is below
\* it; a refusal is invalid-password or room-full and leaves X outside R.
C7_JoinAfterBanNotBanned ==
    \A s \in Slots :
        LET q == req[s]
            pw_ok == q.room.password = NoStr \/ q.room.password = q.arg
            has_space == \/ q.room.max_members = NoMax
                         \/ Cardinality(q.room.members) < q.room.max_members
        IN (DoneJoin(s) /\ q.found /\ WasKicked(q) /\ q.now0 >= BanEnd(q))
           => /\ Exists(q.room_id)
              /\ BansOf(chat_rooms[q.room_id], q.user_id) = {}
              /\ q.result \in {"ok", "invalid_password", "room_full"}
              /\ (pw_ok /\ has_space) => q.result = "ok"
              /\ q.result = "invalid_password" => ~pw_ok
              /\ q.result = "room_full" => ~has_space
              /\ q.result = "ok" <=> q.user_id \in chat_rooms[q.room_id].members

\* C7's case: the kicked user's join at exactly T + 5 minutes, accepted.
C7_Witness ==
    \E s \in Slots :
        LET q == req[s]
        IN /\ DoneJoin(s) /\ q.found /\ WasKicked(q)
           /\ q.now0 = BanEnd(q)
           /\ q.result = "ok"
           /\ q.user_id \in chat_rooms[q.room_id].members

\* A request that deleted the room as its admin: a leave or an explicit delete.
DoneAdminDelete(s) ==
    /\ req[s].pc = "done" /\ req[s].op \in {"leave", "delete"}
    /\ req[s].result = "ok" /\ req[s].room_deleted

\* C8: after an admin's leave or an admin's explicit delete of R completes, R
\* is absent from the store, no message with room id R remains, and a later
\* get of R answers not found.
C8_AdminDeleteRemovesAll ==
    \A s \in Slots :
        LET q == req[s]
        IN /\ DoneAdminDelete(s)
              => ~Exists(q.room_id) /\ MsgCount(q.room_id) = 0
           /\ (q.pc = "done" /\ q.op = "get" /\ announced[q.room_id].deleted > 0)
              => q.result = "not_found" /\ Status(q.result) = 404

\* C8's case: an admin's leave or delete completed on a room that held
\* messages.
C8_Witness ==
    \E s \in Slots : DoneAdminDelete(s) /\ req[s].deleted_count > 0

\* C2: concurrent joins on one room serialize at the room document: with
\* max_members set (here: to 1 or more), no interleaving of joins leaves the
\* room with more than max_members members.
C2_ConcurrentJoinsKeepCapacity ==
    \A r \in DOMAIN chat_rooms :
        chat_rooms[r].max_members >= 1
        => Cardinality(chat_rooms[r].members) <= chat_rooms[r].max_members

\* C9: in every reachable state in which a room exists, its admin_id is one
\* of its members, for every interleaving of join, leave, kick and
\* transfer-admin requests.
C9_AdminIsMember ==
    \A r \in DOMAIN chat_rooms : chat_rooms[r].admin_id \in chat_rooms[r].members

\* C10: every room is deleted exactly once: across every interleaving of
\* admin leave, explicit admin delete and the room's expiry task, the
\* room_deleted and room_expired events emitted for one room id number at
\* most one.
C10_DeletedOnce ==
    \A r \in RoomIds : announced[r].deleted + announced[r].expired <= 1

\* The live connections whose session carries user_id u.
BoundTo(u) ==
    {c \in live : c \in DOMAIN user_sessions /\ user_sessions[c].user_id = u}

\* C3: in every reachable state at most one live connection's session is
\* bound to any given user_id, whatever connect, set-identity, realtime
\* join-room, send-room-message and disconnect events occurred.
C3_OneConnectionPerUser ==
    \A u \in EventIds \ {NoStr} : Cardinality(BoundTo(u)) <= 1

\* C4: when set-identity binds user_id U on connection c2 while U is bound to
\* a different live connection c1, afterwards c1 is closed and has no
\* session, locate(U) is c2, U is online and c2's session carries U.
C4_RebindEvicts ==
    (/\ last_rt.op = "set_nickname"
     /\ TruthyStr(last_rt.user_id)
     /\ last_rt.old_sid \notin {NoStr, last_rt.sid}
     /\ last_rt.old_live)
    => /\ last_rt.old_sid \notin live
       /\ last_rt.old_sid \notin DOMAIN user_sessions
       /\ last_rt.user_id \in DOMAIN connected_users
       /\ connected_users[last_rt.user_id] = last_rt.sid
       /\ last_rt.user_id \in online_users
       /\ last_rt.sid \in DOMAIN user_sessions
       /\ user_sessions[last_rt.sid].user_id = last_rt.user_id

\* C11: every created room is eventually absent from the store even if no
\* admin ever deletes it: its expiry task, created again by the startup
\* reconciliation after a restart, removes it, given that the tasks and the
\* store operations are scheduled fairly and time passes.
C11_RoomEventuallyAbsent ==
    \A r \in RoomIds : Exists(r) ~> ~Exists(r)

\* C11's case: after a restart the expiry task that startup created has
\* removed the room and announced its expiry.
C11_Witness ==
    /\ boot.restarts > 0
    /\ "r1" \in used /\ ~Exists("r1")
    /\ timers["r1"].pc = "over"
    /\ announced["r1"].expired = 1

\* The requests that C12 names.

\* C12: deleted is terminal. A room id that was handed out and is absent from
\* the store stays absent, whatever write lands afterwards (a join's
\* $addToSet included); and a join, leave, kick, transfer-admin or delete
\* that fetches the room once it is absent is refused as NotFound (404) and
\* changes neither the rooms nor the messages.
C12_DeletedIsTerminal ==
    [][/\ \A r \in RoomIds :
              (r \in used /\ ~Exists(r)) => r \notin DOMAIN chat_rooms'
       /\ \A s \in Slots :
              (/\ req[s].pc = "read"
               /\ req[s].op \in MembershipOps
               /\ ~Exists(req[s].room_id)
               /\ req'[s] # req[s])
              => /\ req'[s].pc = "done"
                 /\ req'[s].result = "not_found"
                 /\ Status(req'[s].result) = 404
                 /\ ~req'[s].found
                 /\ UNCHANGED <<chat_rooms, room_messages>>]_vars

\* C12's case: the room is deleted, a later request on it has been refused as
\* not found, and a join that fetched the room before the deletion is about
\* to write its membership.
C12_Witness ==
    \E s, t \in Slots :
        /\ s # t
        /\ req[s].op = "join" /\ req[s].pc = "add" /\ req[s].found
        /\ ~Exists(req[s].room_id)
        /\ req[t].pc = "done" /\ req[t].op \in MembershipOps
        /\ req[t].result = "not_found"

\* C13: no join request ever succeeds on a room whose expiry has passed: a
\* join that fetched the room and answered success read the clock before the
\* room's expires_at.
C13_NoJoinAfterExpiry ==
    \A s \in Slots :
        (DoneJoin(s) /\ req[s].found /\ req[s].result = "ok")
        => req[s].now0 < req[s].room.expires_at

\* C14: in every reachable state a room that is still stored has the current
\* time at most its expires_at plus one scheduler tick interval, also when
\* the expiry task's deletion attempt failed once.
C14_LifetimeWithinOneTick ==
    \A r \in DOMAIN chat_rooms : now <= chat_rooms[r].expires_at + MonitorInterval

\* The indices of the events of the last step that have one of the names.
Emitted(names) == {i \in DOMAIN emitted : emitted[i].name \in names}

\* locate(u): whether the registry holds a live connection for u.
Located(u) == u \in DOMAIN connected_users /\ connected_users[u] \in live

\* C15: for every direct message sent from a connected session the sender
\* receives exactly one message_sent receipt; its status is delivered, with
\* receive_message emitted to the recipient's connection, exactly when the
\* recipient user_id is bound to a live connection at send time, and queued
\* otherwise.
C15_DirectMessageReceipt ==
    (last_rt.op = "send_message" /\ TruthyStr(last_rt.user_id))
    => LET rid == last_rt.user_id
           receipts == Emitted({"message_sent:delivered", "message_sent:queued"})
           deliveries == Emitted({"receive_message"})
       IN /\ Cardinality(receipts) = 1
          /\ \A i \in receipts : emitted[i].rcpt = {last_rt.sid}
          /\ Located(rid)
             => /\ Emitted({"message_sent:delivered"}) # {}
                /\ Cardinality(deliveries) = 1
                /\ \A i \in deliveries : emitted[i].rcpt = {connected_users[rid]}
          /\ ~Located(rid)
             => /\ Emitted({"message_sent:queued"}) # {}
                /\ deliveries = {}

\* C16: a room message is delivered to exactly the connections that are
\* subscribed to the room's channel at send time, the sender's own
\* connection included when it is subscribed, and to no other connection.
C16_RoomMessageToChannel ==
    last_rt.op = "send_room_message"
    => LET msgs == Emitted({"receive_room_message"})
       IN /\ Cardinality(msgs) = 1
          /\ \A i \in msgs :
                /\ emitted[i].rcpt =
                       {c \in live : emitted[i].room_id \in subs[c]}
                /\ last_rt.sid \in emitted[i].rcpt
                       <=> emitted[i].room_id \in subs[last_rt.sid]

\* C16's case: the sender is subscribed, another live connection is not, and
\* the message went to the sender alone.
C16_Witness ==
    /\ last_rt.op = "send_room_message"
    /\ \E i \in Emitted({"receive_room_message"}) :
           /\ emitted[i].rcpt = {last_rt.sid}
           /\ live \ {last_rt.sid} # {}

\* The requests that only the room's admin may make.
AdminOps == {"kick", "transfer", "delete"}

\* C17: kick, transfer-admin and explicit delete are admin-only. When such a
\* request fetches the room, a requester other than the room's current
\* admin_id is refused as Forbidden (403) and nothing is written; the current
\* admin is not refused as Forbidden, whoever created the room: its delete
\* goes on to the deletion, its kick and its transfer to the target checks.
\* A request that reached its last step answers success.
C17_AdminOnly ==
    [][\A s \in Slots :
           LET q == req[s]
           IN /\ (/\ q.pc = "read" /\ q.op \in AdminOps
                  /\ Exists(q.room_id) /\ req'[s] # q)
                 => IF chat_rooms[q.room_id].admin_id # q.user_id
                    THEN /\ req'[s].pc = "done"
                         /\ req'[s].result = "not_admin"
                         /\ Status(req'[s].result) = 403
                         /\ UNCHANGED <<chat_rooms, room_messages>>
                    ELSE /\ Status(req'[s].result) # 403
                         /\ q.op = "delete" => req'[s].pc = "del_room"
                         /\ req'[s].pc = "done" => Status(req'[s].result) = 400
              /\ (/\ q.op \in AdminOps /\ q.pc \in {"emit", "emit_deleted"}
                  /\ req'[s] # q)
                 => req'[s].pc = "done" /\ req'[s].result = "ok"]_vars

\* C17's case: after a transfer-admin the room's creator, admin no more, asked
\* for a kick, a transfer or the delete and was refused.
C17_Witness ==
    \E s \in Slots :
        LET q == req[s]
        IN /\ q.pc = "done" /\ q.op \in AdminOps /\ q.result = "not_admin"
           /\ Exists(q.room_id)
           /\ chat_rooms[q.room_id].creator_id = q.user_id
           /\ chat_rooms[q.room_id].admin_id # q.user_id

\* C18: a kick by the room's current admin is refused as InvalidState (400)
\* when the target is not a member of the room and when the target is the
\* admin itself; the refusal deletes no message, removes no member and adds
\* no ban entry.
C18_KickRefusedInvalidState ==
    [][\A s \in Slots :
           LET q == req[s]
           IN (/\ q.pc = "read" /\ q.op = "kick" /\ Exists(q.room_id)
               /\ chat_rooms[q.room_id].admin_id = q.user_id
               /\ \/ q.arg \notin chat_rooms[q.room_id].members
                  \/ q.arg = q.user_id
               /\ req'[s] # q)
              => /\ req'[s].pc = "done"
                 /\ Status(req'[s].result) = 400
                 /\ req'[s].result = IF q.arg \notin chat_rooms[q.room_id].members
                                     THEN "not_in_room" ELSE "self_kick"
                 /\ UNCHANGED <<chat_rooms, room_messages>>]_vars

\* C18's case: the admin, who has messages stored in the room, asked to kick
\* itself and was refused.
C18_Witness ==
    \E s \in Slots :
        LET q == req[s]
        IN /\ q.pc = "done" /\ q.op = "kick" /\ q.result = "self_kick"
           /\ Exists(q.room_id)
           /\ q.user_id \in chat_rooms[q.room_id].members
           /\ room_messages[q.room_id][q.user_id] > 0

\* The last ban entry of a document.
LastBan(doc) == doc.banned_users[Len(doc.banned_users)]

\* C19: a successful kick of X from R at time T deletes every stored message
\* of R authored by X and no message of another author or room, removes X
\* from R's members and appends a ban entry for X with banned_until = T + 5
\* minutes, and returns the number of messages it deleted and that expiry.
C19_KickEffects ==
    [][\A s \in Slots :
           LET q == req[s]
               r == q.room_id
               X == q.arg
           IN q.op = "kick"
              => /\ (q.pc = "del_msgs" /\ req'[s] # q)
                    => /\ \A r2 \in RoomIds, u \in Users :
                              room_messages'[r2][u] =
                                  IF r2 = r /\ u = X THEN 0
                                  ELSE room_messages[r2][u]
                       /\ req'[s].deleted_count = room_messages[r][X]
                 /\ (q.pc = "ban" /\ req'[s] # q /\ Exists(r))
                    => /\ r \in DOMAIN chat_rooms'
                       /\ chat_rooms'[r].members = chat_rooms[r].members \ {X}
                       /\ chat_rooms'[r].banned_users =
                              Append(chat_rooms[r].banned_users,
                                     [user_id |-> X,
                                      banned_until |-> now + BanMinutes * 60])
                       /\ chat_rooms'[r].admin_id = chat_rooms[r].admin_id
                       /\ req'[s].ban_until = now + BanMinutes * 60
                       /\ req'[s].deleted_count = q.deleted_count
                       /\ UNCHANGED room_messages
                 /\ (q.pc = "emit" /\ req'[s] # q)
                    => /\ req'[s].pc = "done" /\ req'[s].result = "ok"
                       /\ req'[s].deleted_count = q.deleted_count
                       /\ req'[s].ban_until = q.ban_until
                       /\ UNCHANGED <<chat_rooms, room_messages>>
                 /\ (q.pc = "done" /\ q.result = "ok")
                    => /\ Exists(r)
                       /\ X \notin chat_rooms[r].members
                       /\ room_messages[r][X] = 0
                       /\ LastBan(chat_rooms[r]) =
                              [user_id |-> X, banned_until |-> q.ban_until]
                       /\ q.ban_until = kicked_at[r][X] + BanMinutes * 60]_vars

\* C19's case: a kick at a time after the room's creation answered success;
\* it deleted messages of the target, and messages of another author in the
\* room and of the target in another room are still stored.
C19_Witness ==
    \E s \in Slots :
        LET q == req[s]
        IN /\ q.pc = "done" /\ q.op = "kick" /\ q.result = "ok"
           /\ q.deleted_count > 0
           /\ kicked_at[q.room_id][q.arg] > 0
           /\ \E u \in Users \ {q.arg} : room_messages[q.room_id][u] > 0
           /\ \E r2 \in RoomIds \ {q.room_id} : room_messages[r2][q.arg] > 0

\* C20: transfer-admin by the current admin A to N is refused as InvalidState
\* (400) when N is not a member and goes on otherwise; its write sets
\* admin_id to N and leaves the member set as it was, so that A stays a
\* member. A leave by a member who is not the admin removes that member only
\* and keeps the room (so does a later leave by A); a leave by the admin (a
\* later leave by N) deletes the room.
C20_TransferThenLeave ==
    [][\A s \in Slots :
           LET q == req[s]
               r == q.room_id
           IN /\ (/\ q.op = "transfer" /\ q.pc = "read" /\ Exists(r)
                  /\ chat_rooms[r].admin_id = q.user_id /\ req'[s] # q)
                 => /\ UNCHANGED chat_rooms
                    /\ IF q.arg \in chat_rooms[r].members
                       THEN req'[s].pc = "set_admin"
                       ELSE /\ req'[s].pc = "done"
                            /\ req'[s].result = "not_member"
                            /\ Status(req'[s].result) = 400
              /\ (/\ q.op = "transfer" /\ q.pc = "set_admin" /\ Exists(r)
                  /\ req'[s] # q)
                 => /\ r \in DOMAIN chat_rooms'
                    /\ chat_rooms'[r].admin_id = q.arg
                    /\ chat_rooms'[r].members = chat_rooms[r].members
                    /\ q.arg \in chat_rooms'[r].members
                    /\ q.user_id \in chat_rooms'[r].members
              /\ (q.op = "transfer" /\ q.pc = "done" /\ q.result = "ok")
                 => /\ Exists(r)
                    /\ chat_rooms[r].admin_id = q.arg
                    /\ {q.arg, q.user_id} \subseteq chat_rooms[r].members
              /\ (/\ q.op = "leave" /\ q.pc = "read" /\ Exists(r)
                  /\ req'[s] # q)
                 => /\ UNCHANGED chat_rooms
                    /\ req'[s].pc = IF chat_rooms[r].admin_id = q.user_id
                                    THEN "del_room" ELSE "pull_member"
              /\ (/\ q.op = "leave" /\ q.pc = "pull_member" /\ Exists(r)
                  /\ req'[s] # q)
                 => /\ r \in DOMAIN chat_rooms'
                    /\ chat_rooms'[r].members = chat_rooms[r].members \ {q.user_id}
                    /\ chat_rooms'[r].admin_id = chat_rooms[r].admin_id
              /\ (q.op = "leave" /\ q.pc = "del_room" /\ req'[s] # q)
                 => r \notin DOMAIN chat_rooms'
              /\ (q.op = "leave" /\ q.pc = "done" /\ q.found)
                 => /\ q.result = "ok"
                    /\ q.room_deleted <=> ~Exists(r)
                    /\ Exists(r) => q.user_id \notin chat_rooms[r].members]_vars

\* C20's case: after a transfer-admin the room's creator left; the room is
\* kept, with the new admin a member of it.
C20_Witness ==
    \E s \in Slots :
        LET q == req[s]
        IN /\ q.pc = "done" /\ q.op = "leave" /\ q.result = "ok"
           /\ ~q.room_deleted
           /\ Exists(q.room_id)
           /\ chat_rooms[q.room_id].creator_id = q.user_id
           /\ chat_rooms[q.room_id].admin_id # q.user_id
           /\ chat_rooms[q.room_id].admin_id \in chat_rooms[q.room_id].members

\* C21: a leave by a user who is not the room's admin removes exactly that
\* user from the members and leaves the room, its admin, its other members
\* and its messages in place, and returns room_deleted = false; a leave by
\* the admin deletes the room (and its messages) and returns room_deleted =
\* true. Requests on the room are applied one at a time.
C21_LeaveEffects ==
    [][\A s \in Slots :
           LET q == req[s]
               r == q.room_id
           IN q.op = "leave"
              => /\ (q.pc = "read" /\ req'[s] # q)
                    => UNCHANGED <<chat_rooms, room_messages>>
                 /\ (q.pc = "pull_member" /\ req'[s] # q)
                    => /\ Exists(r)
                       /\ chat_rooms[r].admin_id # q.user_id
                       /\ chat_rooms' =
                              [chat_rooms EXCEPT ![r].members = @ \ {q.user_id}]
                       /\ UNCHANGED room_messages
                 /\ (q.pc = "emit" /\ req'[s] # q)
                    => /\ req'[s].pc = "done" /\ req'[s].result = "ok"
                       /\ ~req'[s].room_deleted
                       /\ UNCHANGED <<chat_rooms, room_messages>>
                 /\ (q.pc = "del_room" /\ req'[s] # q)
                    => /\ chat_rooms[r].admin_id = q.user_id
                       /\ DOMAIN chat_rooms' = DOMAIN chat_rooms \ {r}
                 /\ (q.pc = "del_msgs" /\ req'[s] # q)
                    => \A u \in Users : room_messages'[r][u] = 0
                 /\ (q.pc = "emit_deleted" /\ req'[s] # q)
                    => /\ req'[s].pc = "done" /\ req'[s].result = "ok"
                       /\ req'[s].room_deleted
                       /\ ~Exists(r) /\ MsgCount(r) = 0
                       /\ UNCHANGED <<chat_rooms, room_messages>>]_vars

\* C21's case: a member who is not the admin has left a room that holds other
\* members and stored messages of the leaver; the room, its admin, the other
\* members and the messages are in place and the answer is room_deleted =
\* false.
C21_Witness ==
    \E s \in Slots :
        LET q == req[s]
        IN /\ q.pc = "done" /\ q.op = "leave" /\ q.result = "ok"
           /\ ~q.room_deleted
           /\ Exists(q.room_id)
           /\ q.user_id \notin chat_rooms[q.room_id].members
           /\ Cardinality(chat_rooms[q.room_id].members) >= 2
           /\ chat_rooms[q.room_id].admin_id \in chat_rooms[q.room_id].members
           /\ room_messages[q.room_id][q.user_id] > 0

\* C22: binding a user_id to the connection it is already bound to is a no-op
\* apart from the nickname: after set_nickname for user_id U on the live
\* connection that connected_users already holds for U, the connection is
\* still open, its session remains, U is in the online set and locate(U)
\* returns that live connection.
C22_RebindSameConnection ==
    (/\ last_rt.op = "set_nickname"
     /\ TruthyStr(last_rt.user_id)
     /\ last_rt.old_sid = last_rt.sid
     /\ last_rt.old_live)
    => /\ last_rt.sid \in live
       /\ last_rt.sid \in DOMAIN user_sessions
       /\ user_sessions[last_rt.sid].user_id = last_rt.user_id
       /\ last_rt.user_id \in online_users
       /\ Located(last_rt.user_id)
       /\ connected_users[last_rt.user_id] = last_rt.sid

\* C23: kick-then-rejoin observes a consistent ban state under concurrency:
\* for every interleaving of a kick of X with leave and join requests by X on
\* the same room, once the kick has committed X is not a member of the room
\* at any moment at which a ban entry of X in the room is unexpired.
C23_BannedIsNotMember ==
    \A r \in DOMAIN chat_rooms :
        \A X \in Users :
            (kicked_at[r][X] # NoTime /\ BannedAt(chat_rooms[r], X, now))
            => X \notin chat_rooms[r].members

\* C24: the effects of a kick are one logical unit with respect to message
\* sends: at the moment a kick of X from R completes, no stored message of R
\* is authored by X, also when X's save_room_message requests interleave
\* with the kick's message deletion and membership update.
C24_KickClearsMessages ==
    [][\A s \in Slots :
           LET q == req[s]
           IN (q.op = "kick" /\ q.pc = "emit" /\ req'[s].pc = "done")
              => room_messages'[q.room_id][q.arg] = 0]_vars

\* C25: when a room's expiry task wakes it fetches the room again. If the
\* room is absent the task ends: it deletes nothing and emits no event. If
\* the room is present the task deletes the room, then all the room's
\* messages, and then emits room_expired to the room's channel followed by
\* room_list_updated(expired) to all connections, in that order.
C25_TimerFires ==
    [][\A r \in RoomIds :
           LET t == timers[r]
           IN /\ (t.pc = "sleep" /\ timers'[r] # t /\ timers'[r].pc # "none")
                 => /\ now >= t.expires_at
                    /\ timers'[r].pc = IF Exists(r) THEN "del_room" ELSE "over"
                    /\ emitted' = <<>>
                    /\ UNCHANGED <<chat_rooms, room_messages, announced>>
              /\ (t.pc = "del_room" /\ timers'[r] # t)
                 => /\ DOMAIN chat_rooms' = DOMAIN chat_rooms \ {r}
                    /\ timers'[r].pc = "del_msgs"
                    /\ emitted' = <<>>
              /\ (t.pc = "del_msgs" /\ timers'[r] # t)
                 => /\ r \notin DOMAIN chat_rooms'
                    /\ \A u \in Users : room_messages'[r][u] = 0
                    /\ timers'[r].pc = "emit"
                    /\ emitted' = <<>>
              /\ (t.pc = "emit" /\ timers'[r] # t)
                 => /\ Len(emitted') = 2
                    /\ emitted'[1].name = "room_expired"
                    /\ emitted'[1].room_id = r
                    /\ emitted'[1].rcpt = {c \in live : r \in subs[c]}
                    /\ emitted'[2].name = "room_list_updated:expired"
                    /\ emitted'[2].room_id = r
                    /\ emitted'[2].rcpt = live
                    /\ timers'[r].pc = "over"
                    /\ UNCHANGED <<chat_rooms, room_messages>>
              /\ (t.pc = "over" /\ timers'[r] # t) => timers'[r].pc = "none"]_vars

\* C25's case: the task of a room that held messages has deleted the room and
\* the messages and emitted its two events, room_expired to the one connection
\* in the room's channel and the list update to both connections.
C25_Witness ==
    /\ timers["r1"].pc = "over"
    /\ announced["r1"].expired = 1
    /\ ~Exists("r1") /\ MsgCount("r1") = 0
    /\ Len(emitted) = 2
    /\ emitted[1].name = "room_expired" /\ emitted[1].rcpt = {"c1"}
    /\ emitted[2].name = "room_list_updated:expired"
    /\ emitted[2].rcpt = {"c1", "c2"}

\* C25's other case: the task woke on a room the admin had deleted, and ended
\* without an event of its own.
C25_AbsentWitness ==
    /\ timers["r1"].pc = "over"
    /\ "r1" \in used /\ ~Exists("r1")
    /\ announced["r1"].expired = 0
    /\ announced["r1"].deleted = 1
    /\ now >= timers["r1"].expires_at

\* C26: a successful kick emits exactly three events in this order: a
\* user_kicked event that is delivered only to the target's own connection
\* (and to nobody when the target is offline), then room_list_updated with
\* action member_kicked to all connections, then messages_cleared to the
\* room's channel.
C26_KickEvents ==
    [][\A s \in Slots :
           LET q == req[s]
               X == q.arg
           IN (q.op = "kick" /\ q.pc = "emit" /\ req'[s].pc = "done")
              => /\ Len(emitted') = 3
                 /\ emitted'[1].name = "user_kicked"
                 /\ emitted'[1].rcpt =
                        IF Located(X) THEN {connected_users[X]} ELSE {}
                 /\ emitted'[2].name = "room_list_updated:member_kicked"
                 /\ emitted'[2].rcpt = live
                 /\ emitted'[3].name = "messages_cleared"
                 /\ emitted'[3].rcpt = {c \in live : q.room_id \in subs[c]}]_vars

\* C27: for a user who is not a member and has no active ban, join decides in
\* this order: refused as invalid password when the room has a password and
\* the supplied one differs, whatever the occupancy; otherwise refused as
\* room full exactly when max_members is set and the member count is >=
\* max_members, for every max_members a room can be created with, 0
\* included; otherwise the user is added to the members.
C27_JoinDecisionOrder ==
    \A s \in Slots :
        LET q == req[s]
            wrong_pw == q.room.password # NoStr /\ q.room.password # q.arg
            full == /\ q.room.max_members # NoMax
                    /\ Cardinality(q.room.members) >= q.room.max_members
        IN (/\ DoneJoin(s) /\ q.found
            /\ q.user_id \notin q.room.members
            /\ ~BannedAt(q.room, q.user_id, q.now0))
           => /\ q.result = IF wrong_pw THEN "invalid_password"
                            ELSE IF full THEN "room_full" ELSE "ok"
              /\ Exists(q.room_id)
              /\ q.user_id \in chat_rooms[q.room_id].members <=> q.result = "ok"

\* C28: a room is created with expires_at = creation time + 12 hours, and no
\* join, leave, kick, transfer-admin or startup reconciliation of a room that
\* already has an expires_at ever changes that room's expires_at or its
\* creator_id. (Here: no step at all changes them while the room is stored.)
C28_ExpiryAndCreatorFixed ==
    [][\A r \in RoomIds :
           /\ (/\ r \notin DOMAIN chat_rooms /\ r \in DOMAIN chat_rooms'
               /\ chat_rooms'[r].expires_at # NoTime)
              => /\ chat_rooms'[r].created_at = now
                 /\ chat_rooms'[r].expires_at = now + RoomTTLHours * 3600
           /\ (/\ Exists(r) /\ chat_rooms[r].expires_at # NoTime
               /\ r \in DOMAIN chat_rooms')
              => /\ chat_rooms'[r].expires_at = chat_rooms[r].expires_at
                 /\ chat_rooms'[r].creator_id = chat_rooms[r].creator_id]_vars

\* C28's case: a room created after the clock's start, whose admin role was
\* transferred to a member who joined, has lived through a restart in
\* which startup gave it its expiry task; its expires_at is still
\* its creation time + 12 hours and its creator the user who created it.
C28_Witness ==
    /\ boot.restarts > 0 /\ boot.pc = "up"
    /\ boot.armed["r1"] = 1
    /\ Exists("r1")
    /\ chat_rooms["r1"].created_at > 0
    /\ chat_rooms["r1"].expires_at = chat_rooms["r1"].created_at + RoomTTL
    /\ chat_rooms["r1"].creator_id = "u1"
    /\ chat_rooms["r1"].admin_id = "u2"

C30_FailureIsolatedPerRoom ==
    [][(boot.pc \in {"loop", "del_msgs"} /\ boot'.pc = "up")
       => Cardinality({r \in DOMAIN chat_rooms' : timers'[r].pc = "none"}) <= 1]_vars

\* C31: a failure of an outbound emit after a join, leave, kick,
\* transfer-admin or delete has committed to the store does not undo the
\* mutation and does not turn the operation's outcome into a failure: the
\* step that ends such a request leaves the store as committed and answers
\* success.
C31_EmitFailureKeepsSuccess ==
    [][\A s \in Slots :
           LET q == req[s]
           IN (/\ q.op \in {"join", "leave", "delete", "kick", "transfer"}
               /\ q.pc \in {"emit", "emit_deleted"}
               /\ req'[s].pc = "done")
              => /\ UNCHANGED <<chat_rooms, room_messages>>
                 /\ req'[s].result = "ok"
                 /\ Status(req'[s].result) = 200]_vars

\* C32: the realtime join_room event applies the membership rules of the
\* request join: a connection becomes subscribed to a room's channel only if
\* the room exists, the identity of its session has no active ban in that
\* room, and that identity is a member of the room.
C32_RealtimeJoinChecksMembership ==
    [][\A c \in Sids, r \in RoomIds :
           (r \notin subs[c] /\ r \in subs'[c])
           => /\ r \in DOMAIN chat_rooms'
              /\ c \in DOMAIN user_sessions'
              /\ user_sessions'[c].user_id \in chat_rooms'[r].members
              /\ ~BannedAt(chat_rooms'[r], user_sessions'[c].user_id, now)]_vars

\* C33: disconnect of a connection whose session carries a user_id removes
\* that user from the online set and from the user-to-connection map, emits
\* user_offline with that user_id and nickname exactly once, and removes the
\* connection's session; disconnect of a connection whose session carries no
\* user_id removes only the session and emits nothing; the disconnect handler
\* run for a connection without session changes nothing and emits nothing.
C33_DisconnectEffects ==
    [][/\ \A c \in Sids :
              (last_rt'.op = "disconnect" /\ last_rt'.sid = c /\ c \in live)
              => LET sess == user_sessions[c]
                     U == sess.user_id
                 IN /\ c \in DOMAIN user_sessions
                    /\ user_sessions' = DropKey(user_sessions, c)
                    /\ c \notin live'
                    /\ IF TruthyStr(U)
                       THEN /\ U \notin online_users'
                            /\ U \notin DOMAIN connected_users'
                            /\ online_users' = online_users \ {U}
                            /\ connected_users' = DropKey(connected_users, U)
                            /\ Len(emitted') = 1
                            /\ emitted'[1].name = "user_offline"
                            /\ emitted'[1].user_id = U
                            /\ emitted'[1].username = sess.username
                       ELSE /\ online_users' = online_users
                            /\ connected_users' = connected_users
                            /\ emitted' = <<>>
       /\ \A c \in Sids \ DOMAIN user_sessions :
              /\ disconnect_tables(Tables, c) = Tables
              /\ disconnect_events(Tables, c) = <<>>]_vars

\* C33's case: a connection whose session carried a user_id disconnected
\* while another connection was open; the user is offline, out of the map, and
\* the other connection got the one user_offline event.
C33_Witness ==
    /\ last_rt.op = "disconnect"
    /\ TruthyStr(last_rt.user_id)
    /\ last_rt.sid \notin DOMAIN user_sessions
    /\ last_rt.user_id \notin online_users
    /\ Len(emitted) = 1
    /\ emitted[1].name = "user_offline"
    /\ emitted[1].user_id = last_rt.user_id
    /\ emitted[1].rcpt # {}

\* The step takes room r out of the store.
Removes(r) == r \in DOMAIN chat_rooms /\ r \notin DOMAIN chat_rooms'

\* The step is the delete_one of the room's admin leaving or deleting r.
ByAdmin(r) ==
    \E s \in Slots :
        /\ req[s].op \in {"leave", "delete"} /\ req[s].pc = "del_room"
        /\ req[s].room_id = r
        /\ req[s].user_id = chat_rooms[r].admin_id
        /\ req'[s].pc = "del_msgs"

\* The step is the delete_one of r's expiry task or of the startup pass.
ByScheduler(r) ==
    \/ timers[r].pc = "del_room" /\ timers'[r].pc = "del_msgs"
    \/ boot.pc = "loop" /\ boot'.pc = "del_msgs" /\ boot'.cur = r

\* The step is the delete_one of a get that read r.
ByGet(r) ==
    \E s \in Slots :
        /\ req[s].op = "get" /\ req[s].pc = "del_room" /\ req[s].room_id = r
        /\ req'[s].pc = "del_msgs"

C35_OnlineIsRegistryDomain == online_users = DOMAIN connected_users

\* C35's case: set-identity bound two users and one of them has disconnected
\* since; the other is still in the online set and in the map.
C35_Witness ==
    /\ last_rt.op = "disconnect"
    /\ TruthyStr(last_rt.user_id)
    /\ last_rt.user_id \notin online_users
    /\ \E u \in EventIds \ {NoStr} : u \in online_users /\ Located(u)

\* C36: the presence registry holds no stale entry. In every reachable state
\* every user_id in the user-to-connection map points to a connection that is
\* live and whose session carries that user_id, also after a connection
\* re-bound itself to another user_id or to its own user_id again.
C36_NoStaleRegistryEntry ==
    \A u \in DOMAIN connected_users :
        LET c == connected_users[u]
        IN /\ c \in live
           /\ c \in DOMAIN user_sessions
           /\ user_sessions[c].user_id = u

\* C37: disconnect of connection c changes only c's own binding. If user U is
\* bound by set-identity to a live connection d other than c, then after c
\* disconnects U is still online and locate(U) is still d, also when c's
\* session had taken U's user_id through a realtime join-room or
\* send-room-message event.
C37_DisconnectKeepsOthersBinding ==
    [][\A c \in Sids :
           (last_rt'.op = "disconnect" /\ last_rt'.sid = c /\ c \in live)
           => \A U \in EventIds \ {NoStr}, d \in live \ {c} :
                  (/\ U \in DOMAIN connected_users
                   /\ connected_users[U] = d
                   /\ d \in DOMAIN user_sessions
                   /\ user_sessions[d].user_id = U)
                  => /\ U \in online_users'
                     /\ U \in DOMAIN connected_users'
                     /\ connected_users'[U] = d
                     /\ d \in live']_vars

\* What a refused request answers.
Refusals ==
    {"not_found", "banned", "invalid_password", "room_full", "not_admin",
     "not_in_room", "self_kick", "not_member"}

\* The step on which request s is refused.
RefusedStep(s) ==
    /\ req[s].op \in MembershipOps
    /\ req[s].pc \notin {"idle", "done"}
    /\ req'[s].pc = "done"
    /\ req'[s].result \in Refusals

\* The room's document as request s found it when it started: the store's
\* on the request's first step, the document the coroutine fetched afterwards.
DocBefore(s) ==
    IF req[s].pc = "read" THEN find_one(req[s].room_id) ELSE req[s].room

\* The room's document after the step.
DocAfter(s) ==
    IF req[s].room_id \in DOMAIN chat_rooms' THEN chat_rooms'[req[s].room_id]
    ELSE NoDoc

\* No step of a join writes a message.
JoinKeepsMessages ==
    \A s \in Slots :
        (req[s].op = "join" /\ req[s].pc \notin {"idle", "done"} /\ req'[s] # req[s])
        => room_messages' = room_messages

\* C38 as stated: every join, leave, kick, transfer-admin or delete that is
\* refused leaves the room's members, admin, ban list and messages exactly as
\* they were before the request.
C38_RefusalChangesNothing ==
    [][/\ JoinKeepsMessages
       /\ \A s \in Slots :
              RefusedStep(s)
              => /\ DOMAIN chat_rooms' = DOMAIN chat_rooms
                 /\ room_messages' = room_messages
                 /\ DocAfter(s).members = DocBefore(s).members
                 /\ DocAfter(s).admin_id = DocBefore(s).admin_id
                 /\ DocAfter(s).banned_users = DocBefore(s).banned_users]_vars

\* C38 (amended): every refused join, leave, kick, transfer-admin or delete
\* leaves the room's members, admin and messages as they were before the
\* request, and the ban list too, but for one case: a join that found a ban
\* entry of its user expired has removed that user's ban entries before it
\* was refused as invalid password or room full.
C38_RefusalKeepsAllButExpiredBan ==
    [][/\ JoinKeepsMessages
       /\ \A s \in Slots :
              RefusedStep(s)
              => /\ DOMAIN chat_rooms' = DOMAIN chat_rooms
                 /\ room_messages' = room_messages
                 /\ DocAfter(s).members = DocBefore(s).members
                 /\ DocAfter(s).admin_id = DocBefore(s).admin_id
                 /\ \/ DocAfter(s).banned_users = DocBefore(s).banned_users
                    \/ /\ req[s].op = "join"
                       /\ req'[s].result \in {"invalid_password", "room_full"}
                       /\ DocAfter(s).banned_users =
                              SelectSeqNot(DocBefore(s).banned_users, req[s].user_id)
                       /\ \E i \in 1 .. Len(DocBefore(s).banned_users) :
                              /\ DocBefore(s).banned_users[i].user_id = req[s].user_id
                              /\ DocBefore(s).banned_users[i].banned_until
                                     <= req[s].now0]_vars

\* C38's case: a join came back after the ban was over, with a wrong
\* password, and was refused; the room's ban entry is gone, and the user, who
\* had posted a message before the kick, is still outside the room.
C38_Witness ==
    /\ req["s1"].op = "join" /\ req["s1"].pc = "done"
    /\ req["s1"].result = "invalid_password"
    /\ req["s1"].room.banned_users # <<>>
    /\ Exists("r1")
    /\ chat_rooms["r1"].banned_users = <<>>
    /\ req["s1"].user_id \notin chat_rooms["r1"].members

\* The live connections whose session carries a user the room has banned.
KickedSubscribers(r) ==
    {c \in Channel(r) :
        /\ c \in DOMAIN user_sessions
        /\ Exists(r)
        /\ user_sessions[c].user_id \notin chat_rooms[r].members
        /\ BannedAt(chat_rooms[r], user_sessions[c].user_id, now)}

\* C39: kick changes only durable room state and leaves channel subscriptions
\* unchanged. No step of a kick changes a connection or what it has entered;
\* a connection leaves a room's channel only by its own leave-room or by
\* being closed; and every receive-room-message of a room goes to every
\* connection in the room's channel, the kicked user's included.
C39_KickKeepsSubscription ==
    [][/\ \A s \in Slots :
              (req[s].op = "kick" /\ req[s].pc \notin {"idle", "done"}
               /\ req'[s] # req[s])
              => subs' = subs /\ live' = live /\ user_sessions' = user_sessions
       /\ \A c \in Sids, r \in RoomIds :
              (c \in live /\ r \in subs[c] /\ r \notin subs'[c])
              => \/ last_rt'.op = "leave_room" /\ last_rt'.sid = c
                 \/ c \notin live'
       /\ \A i \in 1 .. Len(emitted') :
              emitted'[i].name = "receive_room_message"
              => \A c \in live' :
                     emitted'[i].room_id \in subs'[c] => c \in emitted'[i].rcpt]_vars

\* C39's case: the member was kicked while its connection was in the room's
\* channel; the ban is in force, the connection never left, and a room
\* message sent since has gone to it.
C39_Witness ==
    /\ Len(emitted) = 1
    /\ emitted[1].name = "receive_room_message"
    /\ emitted[1].room_id = "r1"
    /\ "c2" \in KickedSubscribers("r1")
    /\ "c2" \in emitted[1].rcpt
    /\ last_rt.sid = "c1"

\* C40: a RoomMessage is persisted only for a room that exists at the time of
\* the send and only for an author who is a current member of that room
\* without an active ban: a step that stores a message of author u in room r
\* finds r in the store, u among its members and no ban of u in force.
C40_MessageOnlyFromMember ==
    [][\A r \in RoomIds, u \in Users :
           room_messages'[r][u] > room_messages[r][u]
           => /\ r \in DOMAIN chat_rooms
              /\ u \in chat_rooms[r].members
              /\ ~BannedAt(chat_rooms[r], u, now)]_vars
====
